---------------------------- MODULE Spec2Model ----------------------------
(***************************************************************************)
(* NeuralCAD text-to-CAD backend: the /generate request pipeline of        *)
(* backend/main.py (v7), backend/server.py (v6 refactored) and             *)
(* backup/server_COMPLETE_v6.py, together with the pure stages it calls:   *)
(* the prompt parsers, the dimension validator, the ISO-286 tolerance      *)
(* engine, the code generator and the gear profile of the generated        *)
(* script.                                                                 *)
(*                                                                         *)
(* Numbers.  Every length is an integer count of 10^-5 mm, so that half of *)
(* every tabulated deviation (0.0105/2 = 0.00525) is exact.  Python float  *)
(* rounding error below that resolution is not modelled.                   *)
(***************************************************************************)
EXTENDS Integers, Sequences, FiniteSets, TLC

VARIABLES
    server,     \* which of the three server programs is deployed
    freecad,    \* FREECAD_CMD / find_freecad() found an executable
    now,        \* wall clock in whole seconds (read by v6's session id)
    loop,       \* request whose handler blocks v6's event loop, or NoReq
    pc,         \* per request: position of its handler
    reqtext,    \* per request: request.text
    formats,    \* per request: request.export_formats
    rid,        \* per request: current_id / session_id
    kernel,     \* per request: state of the kernel process it awaits
    rc,         \* per request: exit code of the generation run
    resp,       \* per request: the HTTP response
    hist,       \* per request: what the handler did (calls made, files written)
    fs,         \* the output directory: path -> request whose data the file holds
    tc,         \* unit harness: the inputs of the function under evaluation
    out         \* unit harness: its result

vars == <<server, freecad, now, loop, pc, reqtext, formats, rid, kernel, rc,
          resp, hist, fs, tc, out>>

pipeVars == <<server, freecad, now, loop, pc, reqtext, formats, rid, kernel, rc,
              resp, hist, fs>>

-----------------------------------------------------------------------------
(* Fixed-point numbers *)

UnitsPerMM == 10 ^ 5

MM(n) == n * UnitsPerMM

\* value in 10^-4 mm (the resolution of the tolerance tables)
E4(n) == n * (UnitsPerMM \div 10000)

\* Python's "{x:.4f}": the value rounded to four decimals
Format4f(v) ==
    LET q == UnitsPerMM \div 10000
    IN  IF v >= 0 THEN ((2 * v + q) \div (2 * q)) * q
                  ELSE -(((2 * (-v) + q) \div (2 * q)) * q)

-----------------------------------------------------------------------------
(* str.upper() / str.lower() on the fit codes the parsers can deliver *)

FitCodes == {"H7", "h7", "G6", "g6", "H8", "h8"}

Upper(s) ==
    CASE s = "h7" -> "H7"
      [] s = "g6" -> "G6"
      [] s = "h8" -> "H8"
      [] OTHER    -> s

Lower(s) ==
    CASE s = "H7" -> "h7"
      [] s = "G6" -> "g6"
      [] s = "H8" -> "h8"
      [] s = "M6" -> "m6"
      [] s = "M8" -> "m8"
      [] s = "M10" -> "m10"
      [] OTHER    -> s

-----------------------------------------------------------------------------
(* ToleranceEngine (identical in main.py and server.py) *)

ISO_H7 ==
    << [lo |-> MM(0),  hi |-> MM(3),  dev |-> E4(50)],
       [lo |-> MM(3),  hi |-> MM(6),  dev |-> E4(60)],
       [lo |-> MM(6),  hi |-> MM(10), dev |-> E4(75)],
       [lo |-> MM(10), hi |-> MM(18), dev |-> E4(90)],
       [lo |-> MM(18), hi |-> MM(30), dev |-> E4(105)],
       [lo |-> MM(30), hi |-> MM(50), dev |-> E4(125)],
       [lo |-> MM(50), hi |-> MM(80), dev |-> E4(150)] >>

ISO_g6 ==
    << [lo |-> MM(0),  hi |-> MM(3),  dev |-> -E4(40)],
       [lo |-> MM(3),  hi |-> MM(6),  dev |-> -E4(80)],
       [lo |-> MM(6),  hi |-> MM(10), dev |-> -E4(90)],
       [lo |-> MM(10), hi |-> MM(18), dev |-> -E4(110)],
       [lo |-> MM(18), hi |-> MM(30), dev |-> -E4(130)],
       [lo |-> MM(30), hi |-> MM(50), dev |-> -E4(160)] >>

\* the note string f"Modeled at {final_val:.4f}mm ({nominal}mm {fit_class} Mean)"
Note(final, nominal, fit) == [final |-> final, nominal |-> nominal, fit |-> fit]

\* the other notes of server.py ("Bolt: M8 x 40mm", "Washer: OD ...", ...); their
\* numbers are the plan's parameters
TextNote(what) == [final |-> 0, nominal |-> 0, fit |-> what]

\* the empty string ""
NoNote == [final |-> 0, nominal |-> 0, fit |-> ""]

\* "table = None; if ...upper() == 'H7' ... elif ...lower() == 'G6' ..."
\* the empty sequence stands for None ("if not table")
SelectTable(fit_class) ==
    IF Upper(fit_class) = "H7" THEN ISO_H7
    ELSE IF Lower(fit_class) = "G6" THEN ISO_g6
    ELSE << >>

\* the scan with the brackets closed below and open above
FirstBracketOpenAbove(table, nominal) ==
    LET hits == {i \in 1..Len(table) :
                    table[i].lo <= nominal /\ nominal < table[i].hi}
    IN  IF hits = {} THEN 0
        ELSE CHOOSE i \in hits : \A j \in hits : i <= j

\* "for (min_size, max_size), mean_adjust in table.items(): if min < nominal <= max"
\* index of the first bracket, in insertion order, that holds the nominal; 0 if none
FirstBracket(table, nominal) ==
    LET hits == {i \in 1..Len(table) :
                    table[i].lo < nominal /\ nominal <= table[i].hi}
    IN  IF hits = {} THEN 0
        ELSE CHOOSE i \in hits : \A j \in hits : i <= j

get_adjustment(nominal, fit_class) ==
    LET table == SelectTable(fit_class)
        i     == FirstBracket(table, nominal)
    IN  IF table = << >> THEN [adj |-> 0, note |-> NoNote]
        ELSE IF i = 0 THEN [adj |-> 0, note |-> NoNote]
        ELSE [adj  |-> table[i].dev,
              note |-> Note(Format4f(nominal + table[i].dev), nominal, fit_class)]


-----------------------------------------------------------------------------
(* DimensionSet: a Python dict from names to values.  A value is a number,  *)
(* a string or None; Err is the exception a Python operation raises on it.  *)

Numv(n) == [k |-> "num",  n |-> n, s |-> ""]
Strv(s) == [k |-> "str",  n |-> 0, s |-> s]
Nonev   == [k |-> "none", n |-> 0, s |-> ""]
Err     == [k |-> "err",  n |-> 0, s |-> ""]
\* float("999...9") for a digit string beyond the range of a float: inf
Infv    == [k |-> "inf",  n |-> 0, s |-> ""]

EmptyDims == [x \in {} |-> Nonev]

\* dims.get(key)  /  dims.get(key, default)
Get(dims, key) == IF key \in DOMAIN dims THEN dims[key] ELSE Nonev

GetDefault(dims, key, default) == IF key \in DOMAIN dims THEN dims[key] ELSE default

\* truth value of a Python object (None, 0 and "" are false)
Truthy(v) == (v.k = "num" /\ v.n # 0) \/ (v.k = "str" /\ v.s # "") \/ v.k = "inf"

\* a or b
Or(a, b) == IF Truthy(a) THEN a ELSE b

\* float(v): TypeError on None, ValueError on a non-numeric string
Float(v) == IF v.k \in {"num", "inf"} THEN v ELSE Err

\* int(v): the same, OverflowError on inf, and a number is truncated towards
\* zero
IntOf(v) ==
    IF v.k # "num" THEN Err
    ELSE IF v.n >= 0 THEN Numv((v.n \div UnitsPerMM) * UnitsPerMM)
    ELSE Numv(-(((-v.n) \div UnitsPerMM) * UnitsPerMM))

\* min(a, b)
Min(a, b) ==
    IF a.k = "inf" /\ b.k \in {"num", "inf"} THEN b
    ELSE IF b.k = "inf" /\ a.k = "num" THEN a
    ELSE IF a.k # "num" \/ b.k # "num" THEN Err ELSE IF b.n < a.n THEN b ELSE a

\* v / 2, v * 2 (TypeError unless v is a number; "mm" * 2 is a string, which
\* float() then rejects)
Half(v) == IF v.k = "num" THEN Numv(v.n \div 2) ELSE IF v.k = "inf" THEN v ELSE Err

Twice(v) == IF v.k = "num" THEN Numv(2 * v.n) ELSE IF v.k = "inf" THEN v ELSE Err

\* v * num / den
Scale(v, num, den) ==
    IF v.k = "num" THEN Numv((v.n * num) \div den) ELSE IF v.k = "inf" THEN v ELSE Err

Raised(vals) == \E v \in vals : v.k = "err"

-----------------------------------------------------------------------------
(* CodeGenerator.generate: the plan of the script it returns *)

\* return "", []
GenerationFailed == [ok |-> FALSE, base |-> "", p |-> EmptyDims, notes |-> << >>]

Plan(base, p, notes) ==
    IF Raised({p[x] : x \in DOMAIN p}) THEN GenerationFailed
    ELSE [ok |-> TRUE, base |-> base, p |-> p, notes |-> notes]

CylinderFamily == {"cylinder", "piston", "flange"}

\* "if fit: adj, note = get_adjustment(r*2, fit); if adj: r += adj/2; notes.append(note)"
\* result: the radius and the notes; fit.upper() raises on a number
ApplyFitFullDelta(r, fit) ==
    IF ~Truthy(fit) \/ r.k # "num" THEN [r |-> r, notes |-> << >>]
    ELSE IF fit.k # "str" THEN [r |-> Err, notes |-> << >>]
    ELSE LET a == get_adjustment(2 * r.n, fit.s)
         IN  IF a.adj # 0
             THEN [r |-> Numv(r.n + a.adj), notes |-> << a.note >>]
             ELSE [r |-> r, notes |-> << >>]

ApplyFit(r, fit) ==
    IF ~Truthy(fit) \/ r.k # "num" THEN [r |-> r, notes |-> << >>]
    ELSE IF fit.k # "str" THEN [r |-> Err, notes |-> << >>]
    ELSE LET a == get_adjustment(2 * r.n, fit.s)
         IN  IF a.adj # 0
             THEN [r |-> Numv(r.n + a.adj \div 2), notes |-> << a.note >>]
             ELSE [r |-> r, notes |-> << >>]

\* main.py
CodeGenerator_generate(shape, dims) ==
    LET fit == Get(dims, "fit")
        \* dims.get("radius", dims.get("diameter", d)/2): the default is
        \* evaluated before the lookup
        radius(d) ==
            LET dflt == Half(GetDefault(dims, "diameter", Numv(MM(d))))
            IN  IF dflt.k = "err" THEN Err
                ELSE Float(GetDefault(dims, "radius", dflt))
    IN  CASE shape = "box" ->
               Plan("box",
                    "length" :> Float(GetDefault(dims, "length", Numv(MM(50)))) @@
                    "width"  :> Float(GetDefault(dims, "width",  Numv(MM(50)))) @@
                    "height" :> Float(GetDefault(dims, "height", Numv(MM(10)))),
                    << >>)
          [] shape \in CylinderFamily ->
               LET f == ApplyFit(radius(20), fit)
               IN  Plan("cylinder",
                        "radius" :> f.r @@
                        "height" :> Float(GetDefault(dims, "height", Numv(MM(50)))),
                        f.notes)
          [] shape = "sphere" ->
               Plan("sphere", "radius" :> radius(40), << >>)
          [] shape = "gear" ->
               Plan("gear",
                    "outer_radius" :> radius(60) @@
                    "height"       :> Float(GetDefault(dims, "height", Numv(MM(10)))) @@
                    "num_teeth"    :> IntOf(GetDefault(dims, "teeth", Numv(MM(20)))),
                    << >>)
          [] OTHER ->
               \* no branch: header and footer only, the script defines no base
               Plan("none", EmptyDims, << >>)


\* server.py: "dims.get(key) or default" throughout
CodeGenerator_generate_server(shape, dims) ==
    LET fit == Get(dims, "fit")
        g(key, d) == Or(Get(dims, key), Numv(MM(d)))
        \* diameter = dims.get("diameter") or d; r = float(dims.get("radius") or (diameter / 2))
        radius(d) ==
            IF Truthy(Get(dims, "radius")) THEN Float(Get(dims, "radius"))
            ELSE Float(Half(g("diameter", d)))
    IN  CASE shape = "box" ->
               Plan("box",
                    "length" :> Float(g("length", 50)) @@
                    "width"  :> Float(g("width", 50)) @@
                    "height" :> Float(g("height", 10)),
                    << >>)
          [] shape \in CylinderFamily ->
               LET f == ApplyFit(radius(20), fit)
               IN  Plan("cylinder",
                        "radius" :> f.r @@ "height" :> Float(g("height", 50)),
                        f.notes)
          [] shape = "sphere" ->
               Plan("sphere", "radius" :> radius(40), << >>)
          [] shape = "gear" ->
               Plan("gear",
                    "outer_radius" :> radius(60) @@
                    "height"       :> Float(g("height", 10)) @@
                    "num_teeth"    :> IntOf(g("teeth", 20)),
                    << >>)
          [] shape = "bolt" ->
               LET diameter == g("diameter", 8)
                   length   == Or(Get(dims, "length"), g("height", 40))
               IN  Plan("bolt",
                        "head_radius" :> Half(Scale(diameter, 18, 10)) @@
                        "head_height" :> Scale(diameter, 7, 10) @@
                        "shaft_radius" :> Half(diameter) @@
                        "shaft_length" :> Float(length) @@
                        "shaft_z"      :> Scale(diameter, 7, 10) @@
                        "note_m"       :> IntOf(diameter),
                        << TextNote("Bolt") >>)
          [] shape = "washer" ->
               LET outer_d   == Or(Get(dims, "diameter"), g("outer_diameter", 20))
                   inner_d   == Or(Get(dims, "inner_diameter"), Scale(outer_d, 5, 10))
                   thickness == Or(Get(dims, "height"), g("thickness", 2))
               IN  Plan("washer",
                        "outer_radius" :> Half(outer_d) @@
                        "outer_height" :> Float(thickness) @@
                        "inner_radius" :> Half(inner_d) @@
                        "inner_height" :> Float(thickness) @@
                        "inner_z"      :> Numv(0),
                        << TextNote("Washer") >>)
          [] shape = "tube" ->
               LET outer_d == Or(Get(dims, "outer_diameter"), g("diameter", 30))
                   inner_d == Or(Get(dims, "inner_diameter"), Scale(outer_d, 7, 10))
                   height  == Or(Get(dims, "height"), g("length", 100))
               IN  Plan("tube",
                        "outer_radius" :> Half(outer_d) @@
                        "outer_height" :> Float(height) @@
                        "inner_radius" :> Half(inner_d) @@
                        "inner_height" :> Float(height) @@
                        "inner_z"      :> Numv(0),
                        << TextNote("Tube") >>)
          [] shape = "plate_with_hole" ->
               LET length == g("length", 50)
                   width  == g("width", 50)
                   height == g("height", 10)
                   hole_d == Or(Get(dims, "hole_diameter"),
                                Or(Get(dims, "diameter"), Scale(Min(length, width), 3, 10)))
               IN  Plan("plate_with_hole",
                        "length" :> Float(length) @@
                        "width"  :> Float(width) @@
                        "height" :> Float(height) @@
                        "hole_radius" :> Half(hole_d) @@
                        "hole_height" :> Float(height) @@
                        "hole_x" :> Half(length) @@
                        "hole_y" :> Half(width),
                        << TextNote("Plate") >>)
          [] OTHER ->
               \* fallback: default box for unknown shapes
               Plan("box",
                    "length" :> Numv(MM(50)) @@ "width" :> Numv(MM(50)) @@
                    "height" :> Numv(MM(10)),
                    << >>)


-----------------------------------------------------------------------------
(* Prompts.  A prompt is its sequence of tokens: a number (w = "#", n its   *)
(* value) or a word.  A unit follows its number ("30mm" is 30, mm) and the  *)
(* regular expressions' \s* makes the blanks between tokens immaterial.     *)
(* The vocabulary holds no word that contains a shape keyword as a proper   *)
(* substring, so Python's "kw in prompt" is "kw is a word of the prompt".  *)

Num(v) == [w |-> "#", n |-> v]

Word(s) == [w |-> s, n |-> 0]

\* a number written with more digits than a float can hold (309 or more)
Overlong == Num(0 - 1)

\* prompt.lower()
LowerText(text) == [i \in DOMAIN text |-> [w |-> Lower(text[i].w), n |-> text[i].n]]

\* a token whose last characters are digits: a number, or H7 / g6 / h8
EndsInDigits(t) == t.w = "#" \/ Lower(t.w) \in {"h7", "g6", "h8"}

\* (\d+\.?\d*) matched at the end of the token
DigitsOf(t) ==
    CASE t.w = "#" -> t.n
      [] Lower(t.w) = "h7" -> MM(7)
      [] Lower(t.w) = "g6" -> MM(6)
      [] Lower(t.w) = "h8" -> MM(8)
      [] OTHER -> 0

\* (\d+) matched at the end of the token: of 2.5 only the 5 (numbers of the
\* vocabulary carry at most one decimal)
IntDigitsOf(t) ==
    LET v == DigitsOf(t)
    IN  IF v % UnitsPerMM = 0 THEN v
        ELSE ((v % UnitsPerMM) \div (UnitsPerMM \div 10)) * UnitsPerMM

\* "kw in prompt" for some kw of the list
Mentions(text, kws) == \E i \in DOMAIN text : text[i].w \in kws

\* least element of a non-empty set of positions; 0 for the empty set
Leftmost(S) == IF S = {} THEN 0 ELSE CHOOSE i \in S : \A j \in S : i <= j

WordAt(text, i) == IF i \in DOMAIN text THEN text[i].w ELSE ""

IsNumAt(text, i) == i \in DOMAIN text /\ text[i].w = "#"

-----------------------------------------------------------------------------
(* EnhancedParser (enhanced_parser.py) *)

\* UNIT_CONVERSIONS, as numerator over 10
UNIT_CONVERSIONS(unit) ==
    CASE unit \in {"mm", "millimeter", "millimeters"} -> 10
      [] unit \in {"cm", "centimeter", "centimeters"} -> 100
      [] unit \in {"m", "meter", "meters"} -> 10000
      [] unit \in {"in", "inch", "inches", "\""} -> 254
      [] unit \in {"ft", "foot", "feet", "'"} -> 3048
      [] OTHER -> 10

\* value * Decimal(str(UNIT_CONVERSIONS.get(unit, 1.0)))
ToMM(value, unit) == (value \div 10) * UNIT_CONVERSIONS(unit) + ((value % 10) * UNIT_CONVERSIONS(unit)) \div 10

\* float(value.quantize(Decimal('0.000001'), rounding=ROUND_HALF_UP)): every
\* number of the model is a multiple of 10^-5 mm, which the rounding to six
\* decimals leaves as it is
Quantize(v) == v

\* the unit alternatives of the named-dimension patterns
NamedUnits == {"mm", "cm", "in", "inch", "m", "ft"}

\* re.search(r'(\d+\.?\d*)\s*(mm|cm|in|inch|m|ft)?\s*(kw1|kw2|..)\b', prompt_lower):
\* position of the leftmost match, 0 if none
NamedMatch(text, kws) ==
    Leftmost({i \in DOMAIN text :
                /\ EndsInDigits(text[i])
                /\ \/ WordAt(text, i + 1) \in NamedUnits /\ WordAt(text, i + 2) \in kws
                   \/ WordAt(text, i + 1) \in kws})

\* group(2) or 'mm'
NamedUnit(text, i) == IF WordAt(text, i + 1) \in NamedUnits THEN WordAt(text, i + 1) ELSE "mm"

\* r'(\d+\.?\d*)\s*x\s*(\d+\.?\d*)\s*x\s*(\d+\.?\d*)'
XyzMatch(text) ==
    Leftmost({i \in DOMAIN text :
                /\ EndsInDigits(text[i])
                /\ WordAt(text, i + 1) = "x" /\ IsNumAt(text, i + 2)
                /\ WordAt(text, i + 3) = "x" /\ IsNumAt(text, i + 4)})

\* one named dimension: {} when the pattern does not match
NamedDim(text, key, kws) ==
    LET i == NamedMatch(text, kws)
    IN  IF i = 0 THEN EmptyDims
        ELSE (key :> Numv(Quantize(ToMM(DigitsOf(text[i]), NamedUnit(text, i)))))
             @@ ((key \o "_unit_original") :> Strv(NamedUnit(text, i)))

extract_dimensions_with_tolerance(prompt) ==
    LET low  == LowerText(prompt)
        xyz  == XyzMatch(low)
        fromXyz ==
            IF xyz = 0 THEN EmptyDims
            ELSE "length" :> Numv(Quantize(DigitsOf(low[xyz]))) @@
                 "width"  :> Numv(Quantize(low[xyz + 2].n)) @@
                 "height" :> Numv(Quantize(low[xyz + 4].n)) @@
                 "unit"   :> Strv("mm")
        \* "if length_match and 'length' not in dims": the XxYxZ values win
        lwh == IF xyz # 0 THEN fromXyz
               ELSE NamedDim(low, "length", {"length", "long", "l"})
                    @@ NamedDim(low, "width", {"width", "wide", "w"})
                    @@ NamedDim(low, "height", {"height", "tall", "h", "thick"})
        dia  == NamedDim(low, "diameter", {"diameter", "dia", "d"})
        \* dims['radius'] = dims['diameter'] / 2
        diaR == IF dia = EmptyDims THEN EmptyDims
                ELSE dia @@ "radius" :> Numv(Quantize(dia["diameter"].n \div 2))
        \* "if radius_match and 'radius' not in dims"
        rad  == NamedDim(low, "radius", {"radius", "r"})
        radD == IF rad = EmptyDims \/ dia # EmptyDims THEN EmptyDims
                ELSE rad @@ "diameter" :> Numv(Quantize(2 * rad["radius"].n))
        \* r'(\d+)\s*(teeth|tooth|t)\b'
        ti   == Leftmost({i \in DOMAIN low :
                            EndsInDigits(low[i])
                            /\ WordAt(low, i + 1) \in {"teeth", "tooth", "t"}})
        teeth == IF ti = 0 THEN EmptyDims ELSE "teeth" :> Numv(IntDigitsOf(low[ti]))
        \* r'±\s*(\d+\.?\d*)\s*(mm|cm|in)?' (no \b: "inch" gives the unit "in")
        pm   == Leftmost({i \in DOMAIN low : low[i].w = "±" /\ IsNumAt(low, i + 1)})
        tolUnit == LET u == WordAt(low, pm + 2)
                   IN  CASE u = "mm" -> "mm"
                         [] u = "cm" -> "cm"
                         [] u \in {"in", "inch", "inches"} -> "in"
                         [] OTHER -> "mm"
        tol  == IF pm = 0 THEN EmptyDims
                ELSE "tolerance" :> Numv(Quantize(ToMM(low[pm + 1].n, tolUnit)))
        \* r'\b([hHgG][6-9]|[hHgG]1[0-2])\b' on the prompt as typed, then .upper()
        fi   == Leftmost({i \in DOMAIN prompt : prompt[i].w \in FitCodes})
        fit  == IF fi = 0 THEN EmptyDims ELSE "fit" :> Strv(Upper(prompt[fi].w))
    IN  lwh @@ diaR @@ radD @@ teeth @@ tol @@ fit

\* EnhancedParser.detect_shape: priority-ordered keyword search
detect_shape(prompt) ==
    LET low == LowerText(prompt)
    IN  CASE Mentions(low, {"gear", "tooth", "teeth", "sprocket", "cog"}) -> "gear"
          [] Mentions(low, {"sphere", "ball", "round"}) -> "sphere"
          [] Mentions(low, {"cone", "taper", "conical"}) -> "cone"
          [] Mentions(low, {"tube", "pipe", "ring"}) -> "tube"
          [] Mentions(low, {"cylinder", "rod", "shaft", "pin"}) -> "cylinder"
          [] Mentions(low, {"piston"}) -> "piston"
          [] Mentions(low, {"flange", "collar"}) -> "flange"
          [] Mentions(low, {"plate", "sheet"}) -> "box"
          [] Mentions(low, {"box", "cube", "block", "rectangular"}) -> "box"
          [] OTHER -> "box"

\* r'(\d+..)\s*(mm|cm|in)?\s*word': position of the leftmost match
FeatureMatch(text, word) ==
    Leftmost({i \in DOMAIN text :
                /\ EndsInDigits(text[i])
                /\ \/ WordAt(text, i + 1) \in {"mm", "cm", "in"} /\ WordAt(text, i + 2) = word
                   \/ WordAt(text, i + 1) = word})

FeatureUnit(text, i) ==
    IF WordAt(text, i + 1) \in {"mm", "cm", "in"} THEN WordAt(text, i + 1) ELSE "mm"

\* EnhancedParser.detect_features
detect_features(prompt) ==
    LET low == LowerText(prompt)
        h == FeatureMatch(low, "hole")
        f == FeatureMatch(low, "fillet")
        c == FeatureMatch(low, "chamfer")
    IN  (IF h = 0 THEN EmptyDims
         ELSE "hole_diameter" :> Numv(ToMM(IntDigitsOf(low[h]), FeatureUnit(low, h))))
        @@ (IF Mentions(low, {"center"}) /\ Mentions(low, {"hole"})
            THEN "hole_position" :> Strv("center")
            ELSE IF Mentions(low, {"corner"}) /\ Mentions(low, {"hole"})
            THEN "hole_position" :> Strv("corners")
            ELSE EmptyDims)
        @@ (IF f = 0 THEN EmptyDims
            ELSE "fillet_radius" :> Numv(ToMM(DigitsOf(low[f]), FeatureUnit(low, f))))
        @@ (IF c = 0 THEN EmptyDims ELSE "chamfer_size" :> Numv(DigitsOf(low[c])))

\* dims.update(features)
Update(dims, features) == features @@ dims

NoDimensionsError == "No dimensions extracted from prompt"

\* "if not dims or all(v is None for v in dims.values())"
NothingExtractedAlwaysFalse(dims) == FALSE

NothingExtracted(dims) ==
    DOMAIN dims = {} \/ \A key \in DOMAIN dims : dims[key].k = "none"

\* EnhancedParser.validate_parsed_dimensions (the prompt argument is only
\* scanned for numbers that are never used)
validate_parsed_dimensions(dims) ==
    LET errors == IF NothingExtracted(dims) THEN {NoDimensionsError} ELSE {}
        large  == {[key |-> key, what |-> "seems very large"] :
                     key \in {x \in DOMAIN dims : dims[x].k = "num" /\ dims[x].n > MM(10000)}}
        small  == {[key |-> key, what |-> "seems very small"] :
                     key \in {x \in DOMAIN dims :
                                dims[x].k = "num" /\ dims[x].n < UnitsPerMM \div 10}}
        shape_type == GetDefault(dims, "shape", Strv("unknown"))
        missing ==
            IF shape_type = Strv("box")
            THEN IF {"length", "width", "height"} \subseteq DOMAIN dims THEN {}
                 ELSE {[key |-> "box", what |-> "should have length, width, and height"]}
            ELSE IF shape_type \in {Strv("cylinder"), Strv("sphere")}
            THEN IF "radius" \notin DOMAIN dims /\ "diameter" \notin DOMAIN dims
                 THEN {[key |-> shape_type.s, what |-> "should have radius or diameter"]}
                 ELSE {}
            ELSE {}
    IN  [valid    |-> errors = {},
         errors   |-> errors,
         warnings |-> large \cup small \cup missing,
         dimension_count |-> Cardinality({x \in DOMAIN dims : dims[x].k = "num"})]

-----------------------------------------------------------------------------
(* SmartParser of server.py *)

\* get_float(r'(\d+\.?\d*)\s*mm?\s*(kw|kw\b|..)', prompt): the unit m or mm is
\* not optional in these patterns
SmartMatch(text, kws) ==
    Leftmost({i \in DOMAIN text :
                /\ EndsInDigits(text[i])
                /\ WordAt(text, i + 1) \in {"mm", "m"}
                /\ WordAt(text, i + 2) \in kws})

\* float(match.group(1))
SmartNumber(t) == IF t = Overlong THEN Infv ELSE Numv(DigitsOf(t))

SmartFloat(text, kws) ==
    LET i == SmartMatch(text, kws)
    IN  IF i = 0 THEN Nonev ELSE SmartNumber(text[i])

SmartParser_extract_dimensions(prompt) ==
    LET low == LowerText(prompt)
        length0 == SmartFloat(low, {"length", "l", "tall"})
        width0  == SmartFloat(low, {"width", "w", "wide"})
        height0 == SmartFloat(low, {"height", "h", "thick"})
        dia0    == SmartFloat(low, {"diameter", "dia"})
        radius0 == SmartFloat(low, {"radius", "r"})
        \* int(get_float(r'(\d+)\s*(teeth|tooth)', prompt, default=0))
        ti      == Leftmost({i \in DOMAIN low :
                               EndsInDigits(low[i])
                               /\ WordAt(low, i + 1) \in {"teeth", "tooth"}})
        teeth   == IF ti = 0 THEN Numv(0) ELSE Numv(IntDigitsOf(low[ti]))
        \* "50mm cube", "30mm sphere", "60mm cylinder"
        si      == SmartMatch(low, {"cube", "box", "sphere", "ball", "cylinder",
                                    "rod", "piston", "plate", "block"})
        size    == IF si = 0 THEN Nonev ELSE SmartNumber(low[si])
        word    == WordAt(low, si + 2)
        boxy    == si # 0 /\ word \in {"cube", "box", "plate", "block"}
        ball    == si # 0 /\ word \in {"sphere", "ball"}
        rodlike == si # 0 /\ word \in {"cylinder", "rod", "piston"}
        length1 == IF boxy THEN Or(length0, size) ELSE length0
        width1  == IF boxy THEN Or(width0, size) ELSE width0
        \* dims["height"] or size if shape_word == "cube" else (dims["height"] or 10)
        height1 == IF boxy
                   THEN (IF word = "cube" THEN Or(height0, size)
                         ELSE Or(height0, Numv(MM(10))))
                   ELSE IF rodlike THEN Or(height0, Twice(size))
                   ELSE height0
        dia1    == IF ball \/ rodlike THEN Or(dia0, size) ELSE dia0
        \* r'(\d+\.?\d*)x(\d+\.?\d*)x?(\d+\.?\d*)?'
        xi      == Leftmost({i \in DOMAIN low :
                               EndsInDigits(low[i]) /\ WordAt(low, i + 1) = "x"
                               /\ IsNumAt(low, i + 2)})
        third   == WordAt(low, xi + 3) = "x" /\ IsNumAt(low, xi + 4)
        length2 == IF xi = 0 THEN length1 ELSE SmartNumber(low[xi])
        width2  == IF xi = 0 THEN width1 ELSE SmartNumber(low[xi + 2])
        height2 == IF xi = 0 THEN height1
                   ELSE IF third THEN SmartNumber(low[xi + 4])
                   ELSE Or(height1, Numv(MM(10)))
        \* re.search(r'(h7|g6)', prompt, re.IGNORECASE) on the lowered prompt
        fi      == Leftmost({i \in DOMAIN low : low[i].w \in {"h7", "g6"}})
    IN  "length" :> length2 @@ "width" :> width2 @@ "height" :> height2 @@
        "diameter" :> dia1 @@ "radius" :> radius0 @@ "teeth" :> teeth @@
        (IF fi = 0 THEN EmptyDims ELSE "fit" :> Strv(low[fi].w))

SmartParser_detect_shape(prompt) ==
    LET low == LowerText(prompt)
    IN  CASE Mentions(low, {"bolt", "screw", "m6", "m8", "m10", "m12"}) -> "bolt"
          [] Mentions(low, {"washer", "ring", "annular"}) -> "washer"
          [] Mentions(low, {"hole"}) /\ Mentions(low, {"plate", "block", "box"})
                -> "plate_with_hole"
          [] Mentions(low, {"tube", "pipe", "hollow"}) -> "tube"
          [] Mentions(low, {"gear", "tooth", "sprocket"}) -> "gear"
          [] Mentions(low, {"sphere", "ball"}) -> "sphere"
          [] Mentions(low, {"cylinder", "rod", "shaft"}) -> "cylinder"
          [] Mentions(low, {"cone", "taper"}) -> "cone"
          [] Mentions(low, {"piston"}) -> "piston"
          [] Mentions(low, {"flange"}) -> "flange"
          [] OTHER -> "box"

-----------------------------------------------------------------------------
(* SmartParser of server_COMPLETE_v6.py.  Its patterns carry no \b, so a    *)
(* keyword alternative matches as a prefix of the word that follows the     *)
(* unit; "x" between numbers is written without blanks.                     *)

\* first letter of the words of the model's vocabularies ("" for the others)
Initial(w) ==
    CASE w \in {"radius", "r", "rod", "round", "ring", "rectangular"} -> "r"
      [] w \in {"height", "h", "h7", "h8", "hole", "hollow", "housing"} -> "h"
      [] w \in {"length", "l", "long"} -> "l"
      [] w \in {"width", "w", "wide", "washer", "wall", "with"} -> "w"
      [] w \in {"thickness", "thick", "t", "tall", "teeth", "tooth", "tube",
                "taper", "two", "three"} -> "t"
      [] OTHER -> ""

\* unit = "inch" if "inch" in prompt or '"' in prompt else "mm"
v6_unit(low) == IF Mentions(low, {"inch", "inches", "\""}) THEN "inch" ELSE "mm"

\* convert_to_mm(value, detected_unit)
convert_to_mm(value, detected_unit) ==
    IF detected_unit = "inch" THEN ToMM(value, "inch") ELSE value

\* re.search(r'(\d+\.?\d*)\s*mm?\s*(kw|k|..)', prompt): one entry of patterns
v6_named(low, key, letters, words) ==
    LET i == Leftmost({j \in DOMAIN low :
                         /\ EndsInDigits(low[j])
                         /\ WordAt(low, j + 1) \in {"mm", "m"}
                         /\ \/ Initial(WordAt(low, j + 2)) \in letters
                            \/ WordAt(low, j + 2) \in words})
    IN  IF i = 0 THEN EmptyDims
        ELSE key :> Numv(convert_to_mm(DigitsOf(low[i]), v6_unit(low)))

\* r'(\d+\.?\d*)\s*mm?\s*outer.?(diameter|od)' and its inner / wall siblings
v6_compound(low, key, first, seconds) ==
    LET i == Leftmost({j \in DOMAIN low :
                         /\ EndsInDigits(low[j])
                         /\ WordAt(low, j + 1) \in {"mm", "m"}
                         /\ WordAt(low, j + 2) = first
                         /\ WordAt(low, j + 3) \in seconds})
    IN  IF i = 0 THEN EmptyDims
        ELSE key :> Numv(convert_to_mm(DigitsOf(low[i]), v6_unit(low)))

\* if "thickness" in dims and "height" not in dims
v6_thickness_height(d) ==
    IF "thickness" \in DOMAIN d /\ "height" \notin DOMAIN d
    THEN d @@ "height" :> d["thickness"] ELSE d

\* radius from diameter or diameter from radius, when only one was given
v6_radius_diameter(d) ==
    IF "radius" \in DOMAIN d /\ "diameter" \notin DOMAIN d
    THEN d @@ "diameter" :> Twice(d["radius"])
    ELSE IF "diameter" \in DOMAIN d /\ "radius" \notin DOMAIN d
    THEN d @@ "radius" :> Half(d["diameter"])
    ELSE d

\* one derived entry of the tube calculations
v6_derive(d, key, needs, value) ==
    IF needs \subseteq DOMAIN d /\ key \notin DOMAIN d THEN d @@ key :> value ELSE d

\* outer_radius, then inner_radius from inner_diameter, else from the wall
v6_tube_inner(d) ==
    v6_derive(v6_derive(d, "inner_radius", {"inner_diameter"},
                        Half(GetDefault(d, "inner_diameter", Nonev))),
              "inner_radius", {"outer_radius", "wall_thickness"},
              Numv(GetDefault(d, "outer_radius", Numv(0)).n
                   - GetDefault(d, "wall_thickness", Numv(0)).n))

v6_tube_radii(d) ==
    v6_tube_inner(v6_derive(d, "outer_radius", {"outer_diameter"},
                            Half(GetDefault(d, "outer_diameter", Nonev))))

v6_extract_dimensions(prompt) ==
    LET low   == LowerText(prompt)
        unit  == v6_unit(low)
        \* r'(\d+\.?\d*)x(\d+\.?\d*)x?(\d+\.?\d*)?'
        xi    == Leftmost({i \in DOMAIN low :
                             EndsInDigits(low[i]) /\ WordAt(low, i + 1) = "x"
                             /\ IsNumAt(low, i + 2)})
        third == WordAt(low, xi + 3) = "x" /\ IsNumAt(low, xi + 4)
        xyz   == IF xi = 0 THEN EmptyDims
                 ELSE "length" :> Numv(convert_to_mm(DigitsOf(low[xi]), unit)) @@
                      "width" :> Numv(convert_to_mm(low[xi + 2].n, unit)) @@
                      "height" :> Numv(convert_to_mm(
                                     IF third THEN low[xi + 4].n ELSE DigitsOf(low[xi]),
                                     unit))
        ti    == Leftmost({i \in DOMAIN low :
                             EndsInDigits(low[i])
                             /\ WordAt(low, i + 1) \in {"teeth", "tooth"}})
        teeth == IF ti = 0 THEN EmptyDims
                 ELSE "teeth" :> Numv(convert_to_mm(IntDigitsOf(low[ti]), unit))
        \* for key, pattern in patterns.items(): a match overwrites the entry
        named == v6_named(low, "diameter", {}, {"diameter", "dia"}) @@
                 v6_named(low, "radius", {"r"}, {}) @@
                 v6_named(low, "height", {"h"}, {"long"}) @@
                 v6_named(low, "length", {"l"}, {"tall"}) @@
                 v6_named(low, "width", {"w"}, {}) @@
                 v6_named(low, "thickness", {"t"}, {}) @@
                 v6_compound(low, "outer_diameter", "outer", {"diameter", "od"}) @@
                 v6_compound(low, "inner_diameter", "inner", {"diameter", "id"}) @@
                 v6_compound(low, "wall_thickness", "wall", {"thickness", "wt"}) @@
                 teeth
    IN  "unit" :> Strv("mm") @@
        v6_tube_radii(v6_radius_diameter(v6_thickness_height(named @@ xyz)))

-----------------------------------------------------------------------------
(* server.py: DFM analysis.  The result keeps the score and the types of    *)
(* the warnings in the order in which they were appended; the recommended   *)
(* process and the suggestion texts, which feed neither, are left out.      *)

\* DFMAnalyzer.MATERIALS.get(material, DFMAnalyzer.MATERIALS["steel"]):
\* density in 1/100 g/cm3, price in 1/1000 rupee per gram, machinability in 1/100
MATERIALS(material) ==
    CASE material = "aluminum" ->
           [density |-> 270, price_per_gram |-> 290, machinability |-> 90]
      [] material = "abs_plastic" ->
           [density |-> 104, price_per_gram |-> 150, machinability |-> 100]
      [] material = "titanium" ->
           [density |-> 443, price_per_gram |-> 5500, machinability |-> 30]
      [] material = "brass" ->
           [density |-> 873, price_per_gram |-> 700, machinability |-> 85]
      [] material = "polycarb" ->
           [density |-> 120, price_per_gram |-> 200, machinability |-> 95]
      [] material = "copper" ->
           [density |-> 896, price_per_gram |-> 1160, machinability |-> 75]
      [] OTHER ->
           [density |-> 785, price_per_gram |-> 55, machinability |-> 70]

\* a rule that appends its warning and leaves the score alone
RuleNoPenalty(st, holds, type, penalty) ==
    IF holds THEN [score |-> st.score, warnings |-> Append(st.warnings, type)]
    ELSE st

\* "if <condition>: warnings.append({type ..}); score -= penalty"
Rule(st, holds, type, penalty) ==
    IF holds THEN [score |-> st.score - penalty, warnings |-> Append(st.warnings, type)]
    ELSE st

\* The dimension values DFMAnalyzer.analyze computes with: length, width and
\* height of the rules, the diameter of the deep pocket rule (an error value
\* when None * 2 raises), and the radius and h of the volume of a bolt,
\* cylinder, piston or flange
DFMAnalyzer_dimensions(dims) ==
    LET g(key) == Get(dims, key)
    IN  [length |-> Or(g("length"), Or(g("diameter"), Numv(MM(50)))),
         width  |-> Or(g("width"), Or(g("diameter"), Numv(MM(50)))),
         height |-> Or(g("height"), Numv(MM(10))),
         \* diameter = dims.get("diameter") or dims.get("radius", 10) * 2
         diameter |-> IF Truthy(g("diameter")) THEN g("diameter")
                      ELSE Twice(GetDefault(dims, "radius", Numv(MM(10)))),
         \* radius = dims.get("radius") or (dims.get("diameter") or 10) / 2
         radius |-> IF Truthy(g("radius")) THEN g("radius")
                    ELSE Half(Or(g("diameter"), Numv(MM(10)))),
         \* h = dims.get("height") or dims.get("length") or 40
         h |-> Or(g("height"), Or(g("length"), Numv(MM(40))))]

\* DFMAnalyzer.analyze(shape, dims, material); ok is FALSE when it raises
\* (None * 2 for a radius of None, height / diameter for a diameter of 0)
DFMAnalyzer_analyze(shape, dims, material) ==
    LET g(key) == Get(dims, key)
        length == DFMAnalyzer_dimensions(dims).length
        width  == DFMAnalyzer_dimensions(dims).width
        height == DFMAnalyzer_dimensions(dims).height
        \* max(length, width) / max(height, 1) > 20
        longest == IF length.n > width.n THEN length.n ELSE width.n
        depth   == IF height.n > MM(1) THEN height.n ELSE MM(1)
        pocket  == DFMAnalyzer_dimensions(dims).diameter
        teeth    == Or(g("teeth"), Numv(MM(20)))
        diameter == Or(g("diameter"), Numv(MM(60)))
        \* a * b = q * c + r with 0 <= r < c, by doubling
        Step(h, a, c, odd) ==
            LET r == 2 * h.r + (IF odd THEN a % c ELSE 0)
            IN  [q |-> 2 * h.q + (IF odd THEN a \div c ELSE 0) + r \div c, r |-> r % c]
        RECURSIVE MulDiv(_, _, _)
        MulDiv(a, b, c) ==
            IF b = 0 THEN [q |-> 0, r |-> 0]
            ELSE Step(MulDiv(a, b \div 2, c), a, c, b % 2 = 1)
        \* tooth_size = (3.14159 * diameter) / teeth;  tooth_size < 3
        small == MulDiv(314159, diameter.n, 300000).q < teeth.n
        cyl   == shape \in {"cylinder", "gear"}
        raises == cyl /\ (pocket.k = "err"
                          \/ (height.n > 4 * pocket.n /\ pocket.n = 0))
        r1 == Rule([score |-> 100, warnings |-> << >>],
                   shape = "box" /\ height.n < MM(2), "wall_thickness", 20)
        r2 == Rule(r1, shape = "box" /\ longest > 20 * depth, "aspect_ratio", 10)
        r3 == Rule(r2, cyl /\ height.n > 4 * pocket.n, "deep_pocket", 15)
        r4 == Rule(r3, shape = "gear" /\ small, "small_features", 15)
        r5 == Rule(r4, MATERIALS(material).machinability < 50 /\ shape = "gear",
                   "material_difficulty", 10)
        result(st) == [ok |-> TRUE,
                       score |-> IF st.score < 0 THEN 0 ELSE st.score,
                       warnings |-> st.warnings]
    IN  IF raises THEN [ok |-> FALSE, score |-> 0, warnings |-> << >>]
        ELSE result(r5)

-----------------------------------------------------------------------------
(* server.py: cost estimate.  Python computes in binary floating point and  *)
(* rounds the returned fields; here the values before rounding are exact    *)
(* fractions (a natural number in base-100 digits, least significant first, *)
(* over a list of small denominators).  A returned field is the set of the  *)
(* values round() can give: one value, or the two neighbours when the exact *)
(* value lies half-way between them, because which way the float nearest to *)
(* it falls is not determined by the value.  Fields are integers: money in  *)
(* 1/100 rupee, minutes and grams in 1/10, cm3 in 1/100; complexity (in     *)
(* 1/10) is the local variable.                                             *)

\* CostCalculator.calculate(shape, dims, material)
CostCalculator_calculate(shape, dims, material) ==
    LET RECURSIVE Times(_, _, _, _)
        \* digits of a * k + carry, from digit i on
        Times(a, k, i, carry) ==
            IF i > Len(a)
            THEN IF carry = 0 THEN << >>
                 ELSE << carry % 100 >> \o Times(a, k, i, carry \div 100)
            ELSE << (a[i] * k + carry) % 100 >>
                 \o Times(a, k, i + 1, (a[i] * k + carry) \div 100)
        RECURSIVE TimesAll(_, _, _)
        \* a times every factor of factors from the i-th on
        TimesAll(a, factors, i) ==
            IF i > Len(factors) \/ Len(a) = 0 THEN a
            ELSE TimesAll(Times(a, factors[i], 1, 0), factors, i + 1)
        Digit(a, i) == IF i <= Len(a) THEN a[i] ELSE 0
        Longer(a, b) == IF Len(a) > Len(b) THEN Len(a) ELSE Len(b)
        RECURSIVE Sum(_, _, _, _)
        Sum(a, b, i, carry) ==
            IF i > Longer(a, b)
            THEN IF carry = 0 THEN << >> ELSE << carry >>
            ELSE << (Digit(a, i) + Digit(b, i) + carry) % 100 >>
                 \o Sum(a, b, i + 1, (Digit(a, i) + Digit(b, i) + carry) \div 100)
        RECURSIVE Diff(_, _, _, _)
        \* a - b for a >= b
        Diff(a, b, i, borrow) ==
            IF i > Longer(a, b) THEN << >>
            ELSE << (Digit(a, i) - Digit(b, i) - borrow + 100) % 100 >>
                 \o Diff(a, b, i + 1,
                         IF Digit(a, i) - Digit(b, i) - borrow < 0 THEN 1 ELSE 0)
        RECURSIVE Below(_, _, _)
        \* a < b, comparing from digit i down
        Below(a, b, i) ==
            IF i = 0 THEN FALSE
            ELSE IF Digit(a, i) # Digit(b, i) THEN Digit(a, i) < Digit(b, i)
            ELSE Below(a, b, i - 1)
        Less(a, b) == Below(a, b, Longer(a, b))
        RECURSIVE Quot(_, _, _, _)
        \* the remainder of a by k, then the digits of a \div k; from digit i
        \* down with remainder rem
        Quot(a, k, i, rem) ==
            IF i = 0 THEN << rem >>
            ELSE Quot(a, k, i - 1, (rem * 100 + a[i]) % k)
                 \o << (rem * 100 + a[i]) \div k >>
        RECURSIVE QuotAll(_, _, _, _)
        \* a \div (the product of factors from the i-th on), and whether the
        \* division leaves no remainder
        QuotAll(a, factors, i, exact) ==
            LET Then(qr) == QuotAll(Tail(qr), factors, i + 1, exact /\ qr[1] = 0)
            IN  IF i > Len(factors) \/ Len(a) = 0 THEN [q |-> a, exact |-> exact]
                ELSE Then(Quot(a, factors[i], Len(a), 0))
        RECURSIVE Fold(_, _, _)
        \* the factors ds from the i-th on, neighbours multiplied together
        \* while the product stays small
        Fold(ds, i, acc) ==
            IF i > Len(ds) THEN IF acc = 1 THEN << >> ELSE << acc >>
            ELSE IF ds[i] <= 10000000 \div acc THEN Fold(ds, i + 1, acc * ds[i])
            ELSE << acc >> \o Fold(ds, i + 1, ds[i])
        RECURSIVE Value(_, _)
        Value(a, i) == IF i > Len(a) THEN 0 ELSE a[i] + 100 * Value(a, i + 1)
        \* fractions [neg, num, den]
        Frac(factors, ds) == [neg |-> FALSE, num |-> TimesAll(<< 1 >>, factors, 1),
                              den |-> Fold(ds, 1, 1)]
        Mul(x, factors, ds) == [neg |-> x.neg, num |-> TimesAll(x.num, factors, 1),
                                den |-> Fold(x.den \o ds, 1, 1)]
        Signed(neg, xn, yn) ==
            \* (+/-) xn + yn over a common denominator
            IF ~neg THEN [neg |-> FALSE, num |-> Sum(xn, yn, 1, 0)]
            ELSE IF Less(yn, xn) THEN [neg |-> TRUE, num |-> Diff(xn, yn, 1, 0)]
            ELSE [neg |-> FALSE, num |-> Diff(yn, xn, 1, 0)]
        Flip(x) == [neg |-> ~x.neg, num |-> x.num, den |-> x.den]
        Merge(s, den) == [neg |-> s.neg, num |-> s.num, den |-> den]
        \* x + y
        Add(x, y) ==
            IF x.neg = y.neg
            THEN [neg |-> x.neg,
                  num |-> Sum(TimesAll(x.num, y.den, 1), TimesAll(y.num, x.den, 1), 1, 0),
                  den |-> Fold(x.den \o y.den, 1, 1)]
            ELSE IF x.neg
            THEN Merge(Signed(TRUE, TimesAll(x.num, y.den, 1),
                              TimesAll(y.num, x.den, 1)), Fold(x.den \o y.den, 1, 1))
            ELSE Merge(Signed(TRUE, TimesAll(y.num, x.den, 1),
                              TimesAll(x.num, y.den, 1)), Fold(x.den \o y.den, 1, 1))
        Sub(x, y) == Add(x, Flip(y))
        \* x < y for x, y >= 0
        Smaller(x, y) == Less(TimesAll(x.num, y.den, 1), TimesAll(y.num, x.den, 1))
        \* round(x, places), as an integer number of 10^-places
        Magnitudes(h, tie) ==
            IF h % 2 = 0 THEN {h \div 2}
            ELSE IF tie THEN {h \div 2, h \div 2 + 1}
            ELSE {h \div 2 + 1}
        Nearest(neg, halves) ==
            IF neg THEN {0 - m : m \in Magnitudes(Value(halves.q, 1), halves.exact)}
            ELSE Magnitudes(Value(halves.q, 1), halves.exact)
        Round(x, scale) ==
            Nearest(x.neg, QuotAll(Times(x.num, 2 * scale, 1, 0), x.den, 1, TRUE))
        \* a dimension in mm: "dims.get(key) or default", then the next key
        mm(v) == IF v.n % UnitsPerMM = 0 THEN [f |-> << v.n \div UnitsPerMM >>, d |-> << >>]
                 ELSE [f |-> << v.n >>, d |-> << UnitsPerMM >>]
        g(key, default) == mm(Or(Get(dims, key), Numv(MM(default))))
        g2(key, other, default) ==
            mm(Or(Get(dims, key), Or(Get(dims, other), Numv(MM(default)))))
        \* products of dimensions and constants
        By(s, t) == [f |-> s.f \o t.f, d |-> s.d \o t.d]
        K(n, d) == [f |-> << n >>, d |-> << d >>]
        F(s) == Frac(s.f, s.d)
        pi == K(314159, 100000)
        half(s) == By(s, K(1, 2))
        sq(s) == By(s, s)
        radius(default) ==
            IF Truthy(Get(dims, "radius")) THEN mm(Get(dims, "radius"))
            ELSE half(g("diameter", default))
        MulS(x, s) == Mul(x, s.f, s.d)
        \* [volume, surface_area] by shape
        Box(l, w, h) ==
            [volume |-> F(By(l, By(w, h))),
             surface_area |-> Mul(Add(F(By(l, w)), Add(F(By(w, h)), F(By(h, l)))),
                                  << 2 >>, << >>)]
        Cylinder(r, h) ==
            [volume |-> F(By(pi, By(sq(r), h))),
             surface_area |-> MulS(Add(F(r), F(h)), By(K(2, 1), By(pi, r)))]
        Sphere(r) ==
            [volume |-> F(By(K(4, 3), By(pi, By(sq(r), r)))),
             surface_area |-> F(By(K(4, 1), By(pi, sq(r))))]
        Gear(r, h) ==
            [volume |-> F(By(pi, By(sq(r), By(h, K(85, 100))))),
             surface_area |->
                 Mul(Add(F(By(K(2, 1), By(pi, By(r, h)))),
                         F(By(K(2, 1), By(pi, sq(r))))), << 15 >>, << 10 >>)]
        Bolt(d, l) ==
            [volume |-> Add(F(By(pi, By(sq(half(By(d, K(18, 10)))), By(d, K(7, 10))))),
                            F(By(pi, By(sq(half(d)), l)))),
             surface_area |-> Add(F(By(pi, By(By(d, K(18, 10)), By(d, K(7, 10))))),
                                  F(By(pi, By(d, l))))]
        Ring(outer, inner, h) ==
            [volume |-> MulS(Sub(F(sq(half(outer))), F(sq(half(inner)))), By(pi, h)),
             surface_area |->
                 Add(MulS(Sub(F(sq(half(outer))), F(sq(half(inner)))), By(K(2, 1), pi)),
                     MulS(Add(F(outer), F(inner)), By(pi, h)))]
        Plate(l, w, h, hole) ==
            [volume |-> Sub(F(By(l, By(w, h))), F(By(pi, By(sq(half(hole)), h)))),
             surface_area |->
                 Add(Mul(Add(F(By(l, w)), Add(F(By(w, h)), F(By(h, l)))), << 2 >>, << >>),
                     F(By(pi, By(hole, h))))]
        inner_d(outer_d, ratio) ==
            IF Truthy(Get(dims, "inner_diameter")) THEN mm(Get(dims, "inner_diameter"))
            ELSE By(outer_d, K(ratio, 10))
        smaller(a, b) == IF b.n < a.n THEN b ELSE a
        hole_d ==
            IF Truthy(Get(dims, "hole_diameter")) THEN mm(Get(dims, "hole_diameter"))
            ELSE IF Truthy(Get(dims, "diameter")) THEN mm(Get(dims, "diameter"))
            ELSE By(mm(smaller(Or(Get(dims, "length"), Numv(MM(50))),
                               Or(Get(dims, "width"), Numv(MM(50))))), K(3, 10))
        geometry ==
            CASE shape = "box" -> Box(g("length", 50), g("width", 50), g("height", 10))
              [] shape \in {"cylinder", "piston", "flange"} ->
                   Cylinder(radius(20), g("height", 50))
              [] shape = "sphere" -> Sphere(radius(40))
              [] shape = "gear" -> Gear(radius(60), g("height", 10))
              [] shape = "bolt" -> Bolt(g("diameter", 8), g2("length", "height", 40))
              [] shape = "washer" ->
                   Ring(g("diameter", 20), inner_d(g("diameter", 20), 5),
                        g2("height", "thickness", 2))
              [] shape = "tube" ->
                   Ring(g2("outer_diameter", "diameter", 30),
                        inner_d(g2("outer_diameter", "diameter", 30), 7),
                        g2("height", "length", 100))
              [] shape = "plate_with_hole" ->
                   Plate(g("length", 50), g("width", 50), g("height", 10), hole_d)
              [] OTHER -> Box(mm(Numv(MM(50))), mm(Numv(MM(50))), mm(Numv(MM(10))))
        mat_props == MATERIALS(material)
        \* complexity = 1.0 if shape == "box" else 1.5 if shape == "cylinder" else 2.5
        complexity == IF shape = "box" THEN 10 ELSE IF shape = "cylinder" THEN 15 ELSE 25
        Rounded(material_cost, machining_time_min, machining_cost, total_cost,
                weight_grams, volume_cm3) ==
            [material_cost |-> Round(material_cost, 100),
             machining_time_min |-> Round(machining_time_min, 10),
             machining_cost |-> Round(machining_cost, 100),
             setup_cost |-> {50000},
             total_cost |-> Round(total_cost, 100),
             weight_grams |-> Round(weight_grams, 10),
             volume_cm3 |-> Round(volume_cm3, 100),
             qty_1 |-> Round(total_cost, 100),
             qty_10 |-> Round(Mul(total_cost, << 85 >>, << 100 >>), 100),
             qty_100 |-> Round(Mul(total_cost, << 65 >>, << 100 >>), 100),
             qty_1000 |-> Round(Mul(total_cost, << 45 >>, << 100 >>), 100),
             complexity |-> {complexity}]
        Totals(material_cost, machining_time_min, machining_cost, weight_grams,
               volume_cm3) ==
            Rounded(material_cost, machining_time_min, machining_cost,
                    Add(Frac(<< 500 >>, << >>), Add(material_cost, machining_cost)),
                    weight_grams, volume_cm3)
        \* machining_time_min = max(5, (surface_area / 100) * complexity / machinability)
        Machining(material_cost, raw_time, weight_grams, volume_cm3) ==
            IF raw_time.neg \/ Smaller(raw_time, Frac(<< 5 >>, << >>))
            THEN Totals(material_cost, Frac(<< 5 >>, << >>), Frac(<< 50 >>, << >>),
                        weight_grams, volume_cm3)
            ELSE Totals(material_cost, raw_time, Mul(raw_time, << 600 >>, << 60 >>),
                        weight_grams, volume_cm3)
        Weighed(weight_grams, volume_cm3, surface_area) ==
            Machining(Mul(weight_grams, << mat_props.price_per_gram >>, << 1000 >>),
                      Mul(surface_area, << complexity, 100 >>,
                          << 100, 10, mat_props.machinability >>),
                      weight_grams, volume_cm3)
        Measured(volume_cm3, surface_area) ==
            Weighed(Mul(volume_cm3, << mat_props.density >>, << 100 >>),
                    volume_cm3, surface_area)
        Costs(volume, surface_area) ==
            Measured(Mul(volume, << >>, << 1000 >>), surface_area)
    IN  Costs(geometry.volume, geometry.surface_area)

-----------------------------------------------------------------------------
(* Unit harness: one function applied to inputs drawn from bounded sets *)

\* the requests of a run, and "no request"
Requests == {"a", "b"}

NoReq == "-"

\* current_id / session_id before the handler assigned one
NoId == 0 - 1

\* a file of the output directory: <<kind, id>>
NoPath == <<"", NoId>>

NoFiles == [p \in {} |-> NoReq]

NoResponse == [kind |-> "none", code |-> 0, path |-> NoPath, data |-> NoReq]

NoKernel == [st |-> "none", of |-> NoReq]

Untouched == [extracted |-> FALSE, generate |-> FALSE, script |-> FALSE,
              runs |-> 0, checked |-> FALSE, missing |-> FALSE]

\* no request has arrived
RequestsAtRest ==
    /\ now = 0
    /\ loop = NoReq
    /\ pc = [r \in Requests |-> "idle"]
    /\ reqtext = [r \in Requests |-> << >>]
    /\ formats = [r \in Requests |-> << >>]
    /\ rid = [r \in Requests |-> NoId]
    /\ kernel = [r \in Requests |-> NoKernel]
    /\ rc = [r \in Requests |-> 0]
    /\ resp = [r \in Requests |-> NoResponse]
    /\ hist = [r \in Requests |-> Untouched]
    /\ fs = NoFiles

PipelineAtRest == server = "main" /\ freecad = TRUE /\ RequestsAtRest

NoResult == [op |-> "none"]

\* nominal sizes: every multiple of 1.5 mm from -1.5 mm up to the last sample
MaxNominalStep == 56

NominalSamples == {(k - 1) * ((3 * UnitsPerMM) \div 2) : k \in 0..MaxNominalStep}

Servers == {"main", "server", "v6"}

Shapes == {"box", "cylinder", "piston", "flange", "sphere", "gear", "cone",
           "bolt", "washer", "tube", "plate_with_hole"}

\* DimensionSets handed to the generator: diameter d and / or its radius (or
\* neither), and a fit entry (or none)
FitDims(has, d, f) ==
    (IF has \in {"both", "diameter"} THEN "diameter" :> Numv(d) ELSE EmptyDims)
    @@ (IF has \in {"both", "radius"} THEN "radius" :> Numv(d \div 2) ELSE EmptyDims)
    @@ (IF f = "" THEN EmptyDims ELSE "fit" :> Strv(f))

FitInit ==
    /\ PipelineAtRest
    /\ out = NoResult
    /\ tc \in [nominal : NominalSamples, fit : FitCodes \cup {"", "k5"},
               shape : Shapes, srv : {"main", "server"},
               has : {"both", "diameter", "radius", "none"}]

Generate(srv, shape, dims) ==
    IF srv = "main" THEN CodeGenerator_generate(shape, dims)
    ELSE CodeGenerator_generate_server(shape, dims)

\* ToleranceEngine.get_adjustment(nominal, fit_class)
CallGetAdjustment ==
    /\ out = NoResult
    /\ out' = [op |-> "get_adjustment", r |-> get_adjustment(tc.nominal, tc.fit)]
    /\ UNCHANGED <<pipeVars, tc>>

\* CodeGenerator.generate(shape, dims) with and without the fit entry
CallGenerate ==
    /\ out = NoResult
    /\ tc.nominal >= 0
    /\ out' = [op |-> "generate",
               r  |-> Generate(tc.srv, tc.shape, FitDims(tc.has, tc.nominal, tc.fit)),
               r0 |-> Generate(tc.srv, tc.shape, FitDims(tc.has, tc.nominal, ""))]
    /\ UNCHANGED <<pipeVars, tc>>

FitNext == CallGetAdjustment \/ CallGenerate

FitSpec == FitInit /\ [][FitNext]_vars


\* the table the fit code names: "H7" and "G6" as EnhancedParser delivers them
\* (upper case), "h7" and "g6" as SmartParser does (lower case)
NamedTable(fit_class) ==
    IF fit_class \in {"H7", "h7"} THEN ISO_H7
    ELSE IF fit_class \in {"G6", "g6"} THEN ISO_g6
    ELSE << >>

\* the bracket (min exclusive, max inclusive) of a table that holds the nominal
BracketOf(table, nominal) ==
    {i \in 1..Len(table) : table[i].lo < nominal /\ nominal <= table[i].hi}

\* C7: for a fit code of either table and a nominal size inside one of that
\* table's brackets, get_adjustment returns that bracket's non-zero deviation
\* and a non-empty note; outside all brackets, or for an unrecognized code, it
\* returns exactly (0.0, "").
C7_BothTablesLookedUp ==
    out.op = "get_adjustment" =>
        LET t == NamedTable(tc.fit)
            b == BracketOf(t, tc.nominal)
        IN  IF b = {}
            THEN out.r = [adj |-> 0, note |-> NoNote]
            ELSE /\ \E i \in b : out.r.adj = t[i].dev
                 /\ out.r.adj # 0
                 /\ out.r.note # NoNote

\* C8: for cylinder, piston and flange with a fit class the deviation is looked
\* up once, on the nominal diameter (2 x radius); a non-zero deviation gives
\* radius = nominal radius + deviation / 2 and exactly that one note, a zero
\* lookup gives the nominal radius and no note.  For every other shape the
\* plan with the fit entry has the dimensions of the plan without it.
C8_FitAppliedOnceToRadius ==
    out.op = "generate" =>
        /\ out.r.ok /\ out.r0.ok
        /\ IF tc.shape \in CylinderFamily /\ tc.fit # ""
           THEN LET nominal_r == out.r0.p["radius"].n
                    a == get_adjustment(2 * nominal_r, tc.fit)
                IN  /\ out.r.p["height"] = out.r0.p["height"]
                    /\ IF a.adj # 0
                       THEN /\ 2 * out.r.p["radius"].n = 2 * nominal_r + a.adj
                            /\ out.r.notes = << a.note >>
                       ELSE /\ out.r.p["radius"].n = nominal_r
                            /\ out.r.notes = << >>
           ELSE out.r.p = out.r0.p

\* a 30 mm H7 cylinder was generated with radius 15 + 0.0105/2 and one note
C8_Witness ==
    /\ out.op = "generate"
    /\ tc.shape = "cylinder" /\ tc.fit = "H7" /\ tc.nominal = MM(30)
    /\ out.r.p["radius"].n = MM(15) + 525
    /\ Len(out.r.notes) = 1


-----------------------------------------------------------------------------
(* Harness: the parsing stages of /generate on every prompt of a bounded    *)
(* vocabulary, in the order generate_cad calls them                         *)

MaxPromptLen == 4

ParseVocabulary ==
    {Num(MM(30)), Word("mm"), Word("shaft"), Word("H7"), Word("g6"), Word("box"),
     Word("sphere"), Word("diameter"), Word("length"), Word("nice")}

ParsePrompts == UNION {[1..n -> ParseVocabulary] : n \in 0..MaxPromptLen}

ParseInit ==
    /\ PipelineAtRest
    /\ out = NoResult
    /\ tc \in [text : ParsePrompts, srv : {"main", "server"}]

\* main.py generate_cad, phases 1 and 2
ParseMain ==
    /\ out = NoResult /\ tc.srv = "main"
    /\ LET shape == detect_shape(tc.text)
           dims  == extract_dimensions_with_tolerance(tc.text)
           validation == validate_parsed_dimensions(dims)
           full  == Update(dims, detect_features(tc.text))
       IN  out' = [op |-> "parse", shape |-> shape, dims |-> dims,
                   validation |-> validation,
                   plan |-> IF validation.valid
                            THEN CodeGenerator_generate(shape, full)
                            ELSE GenerationFailed]
    /\ UNCHANGED <<pipeVars, tc>>

\* server.py generate_cad, steps 1 and 2 (no validation)
ParseServer ==
    /\ out = NoResult /\ tc.srv = "server"
    /\ LET shape == SmartParser_detect_shape(tc.text)
           dims  == SmartParser_extract_dimensions(tc.text)
       IN  out' = [op |-> "parse", shape |-> shape, dims |-> dims,
                   validation |-> [valid |-> TRUE, errors |-> {}, warnings |-> {},
                                   dimension_count |-> 0],
                   plan |-> CodeGenerator_generate_server(shape, dims)]
    /\ UNCHANGED <<pipeVars, tc>>

ParseNext == ParseMain \/ ParseServer

ParseSpec == ParseInit /\ [][ParseNext]_vars

-----------------------------------------------------------------------------
(* Harness: validate_parsed_dimensions on arbitrary DimensionSets *)

MaxDimKeys == 3

DimKeys == {"length", "width", "height", "radius", "teeth", "fit", "shape"}

DimValues(key) ==
    CASE key = "fit"   -> {Strv("H7"), Nonev}
      [] key = "shape" -> {Strv("box"), Strv("cylinder"), Strv("sphere")}
      [] OTHER -> {Nonev, Numv(0), Numv(MM(50)), Numv(MM(20000))}

DimSets ==
    UNION {{d \in [D -> UNION {DimValues(x) : x \in D}] :
              \A x \in D : d[x] \in DimValues(x)} :
           D \in {D \in SUBSET DimKeys : Cardinality(D) <= MaxDimKeys}}

ValidateInit ==
    /\ PipelineAtRest
    /\ out = NoResult
    /\ tc \in [dims : DimSets]

CallValidate ==
    /\ out = NoResult
    /\ out' = [op |-> "validate", r |-> validate_parsed_dimensions(tc.dims)]
    /\ UNCHANGED <<pipeVars, tc>>

ValidateNext == CallValidate

ValidateSpec == ValidateInit /\ [][ValidateNext]_vars

\* C5: validate_parsed_dimensions returns valid=False if and only if the
\* DimensionSet holds no non-null numeric value; a DimensionSet whose only
\* entry is a fit code is invalid.
C5_ValidIffSomeNumber ==
    out.op = "validate" =>
        (out.r.valid <=> \E x \in DOMAIN tc.dims : tc.dims[x].k = "num")

\* C6: in /generate, validation warns whenever the prompt is classified as a
\* box and one of length, width, height is missing, and whenever it is
\* classified as a cylinder or sphere and radius and diameter are both missing.
C6_MissingDimensionWarned ==
    (out.op = "parse" /\ tc.srv = "main") =>
        /\ (out.shape = "box"
            /\ ~({"length", "width", "height"} \subseteq DOMAIN out.dims))
               => \E w \in out.validation.warnings : w.key = "box"
        /\ (out.shape \in {"cylinder", "sphere"}
            /\ "radius" \notin DOMAIN out.dims /\ "diameter" \notin DOMAIN out.dims)
               => \E w \in out.validation.warnings : w.key = out.shape

\* "30mm shaft H7"
ShaftH7Prompt == << Num(MM(30)), Word("mm"), Word("shaft"), Word("H7") >>

\* C9: for "30mm shaft H7" the pipeline produces a cylinder whose fit lookup
\* is made for nominal 30 mm in the H7 table (bracket 18..30, deviation
\* 0.0105), whose radius is 15 mm plus half that deviation and whose note
\* states the mean diameter 30.0105.
C9_ShaftH7Scenario ==
    (out.op = "parse" /\ tc.text = ShaftH7Prompt) =>
        /\ out.plan.ok
        /\ out.plan.base = "cylinder"
        /\ out.plan.p["radius"] = Numv(MM(15) + E4(105) \div 2)
        /\ Len(out.plan.notes) = 1
        /\ out.plan.notes[1].nominal = MM(30)
        /\ out.plan.notes[1].final = MM(30) + E4(105)

-----------------------------------------------------------------------------
(* The /generate pipeline.  A handler runs without interruption between two *)
(* awaits; the kernel process and the response transport run beside it.     *)

\* str(uuid.uuid4())[:8]: a random value of a finite space, drawn afresh by
\* every request and compared with nothing
NumIds == 2

IdSpace == 1..NumIds

\* last second of the wall clock the runs cover
MaxClock == 1

NothingPrompt == <<Word("make"), Word("something"), Word("nice")>>

PlatePrompt == <<Num(MM(50)), Word("x"), Num(MM(50)), Word("x"), Num(MM(10)), Word("plate")>>

PipelinePrompts == {NothingPrompt, ShaftH7Prompt, PlatePrompt}

\* "bolt 999...9mm diameter": PromptRequest.text has no length limit
OverlongBoltPrompt == <<Word("bolt"), Overlong, Word("mm"), Word("diameter")>>

\* CodeGenerator.generate returned ("", []) for the text of request r
EmptyScript(r) ==
    ~CodeGenerator_generate_server(SmartParser_detect_shape(reqtext[r]),
                                   SmartParser_extract_dimensions(reqtext[r])).ok

FormatLists == {<<"stl">>, <<"step", "stl">>, << >>}

ErrorResponse(code) == [kind |-> "error", code |-> code, path |-> NoPath, data |-> NoReq]

\* FileResponse(path): the file is read when the response is sent
FileResponse(path) == [kind |-> "file", code |-> 200, path |-> path, data |-> NoReq]

Exists(path) == path \in DOMAIN fs

\* open(path, "w").write(..) by request r, on the directory f
Write(f, path, r) == (path :> r) @@ f

Unlink(f, path) == [q \in DOMAIN f \ {path} |-> f[q]]

\* ExportManager.SUPPORTED_FORMATS
SUPPORTED_FORMATS == {"stl", "step", "stp", "iges", "igs"}

\* fmt.lower()
LowerFormat(fmt) ==
    CASE fmt = "STL" -> "stl" [] fmt = "STEP" -> "step" [] fmt = "IGES" -> "iges"
      [] OTHER -> fmt

\* ExportManager.generate_export_script: the keys of output_files; the file of
\* key k is base_path.with_suffix(extension of k), here <<k, id>>
output_files(fmts) == {LowerFormat(fmts[i]) : i \in DOMAIN fmts} \cap SUPPORTED_FORMATS

\* process.returncode != 0
KernelFailedNever(code) == FALSE

KernelFailed(code) == code # 0

Reply(r, response) ==
    /\ resp' = [resp EXCEPT ![r] = response]
    /\ pc' = [pc EXCEPT ![r] = "done"]

\* asyncio.create_subprocess_exec(FREECAD_CMD, script_path) / subprocess.run
Spawn(r) ==
    /\ kernel' = [kernel EXCEPT ![r] = [st |-> "spawned", of |-> NoReq]]
    /\ pc' = [pc EXCEPT ![r] = "await_kernel"]

\* main.py generate_cad up to "await process.communicate()"
MainBegin(r) ==
    /\ server = "main" /\ pc[r] = "idle"
    /\ \E text \in PipelinePrompts, fmts \in FormatLists, id \in IdSpace :
         LET shape == detect_shape(text)
             dims  == extract_dimensions_with_tolerance(text)
             validation == validate_parsed_dimensions(dims)
             full  == Update(dims, detect_features(text))
             plan  == CodeGenerator_generate(shape, full)
         IN  /\ reqtext' = [reqtext EXCEPT ![r] = text]
             /\ formats' = [formats EXCEPT ![r] = fmts]
             /\ IF ~freecad
                THEN /\ Reply(r, ErrorResponse(500))
                     /\ UNCHANGED <<rid, kernel, hist, fs>>
                ELSE IF ~validation.valid
                THEN /\ Reply(r, ErrorResponse(400))
                     /\ rid' = [rid EXCEPT ![r] = id]
                     /\ hist' = [hist EXCEPT ![r].extracted = TRUE]
                     /\ UNCHANGED <<kernel, fs>>
                ELSE IF ~plan.ok
                THEN /\ Reply(r, ErrorResponse(500))
                     /\ rid' = [rid EXCEPT ![r] = id]
                     /\ hist' = [hist EXCEPT ![r].extracted = TRUE,
                                             ![r].generate = TRUE]
                     /\ UNCHANGED <<kernel, fs>>
                ELSE /\ rid' = [rid EXCEPT ![r] = id]
                     /\ hist' = [hist EXCEPT ![r].extracted = TRUE,
                                             ![r].generate = TRUE,
                                             ![r].script = TRUE, ![r].runs = @ + 1]
                     /\ fs' = Write(fs, <<"script", id>>, r)
                     /\ Spawn(r)
                     /\ UNCHANGED resp
    /\ UNCHANGED <<server, freecad, now, loop, rc, tc, out>>

\* the file of the first requested format: output_files.get(first_format),
\* NoPath when export_formats is empty or the format has no entry
FirstFile(r) ==
    IF formats[r] # << >> /\ formats[r][1] \in output_files(formats[r])
    THEN <<formats[r][1], rid[r]>>
    ELSE NoPath

\* main.py generate_cad from the kernel's exit to "await process.communicate()"
\* of ExportManager.validate_export
MainAfterKernel(r) ==
    /\ server = "main" /\ pc[r] = "await_kernel" /\ kernel[r].st = "exited"
    /\ hist' = [hist EXCEPT ![r].checked = TRUE,
                            ![r].missing = ~Exists(FirstFile(r))]
    /\ IF KernelFailed(rc[r]) \/ formats[r] = << >> \/ ~Exists(FirstFile(r))
       THEN /\ Reply(r, ErrorResponse(500))
            /\ UNCHANGED <<kernel, fs>>
       ELSE /\ fs' = Write(fs, <<"validate", rid[r]>>, r)
            /\ kernel' = [kernel EXCEPT ![r].st = "validating"]
            /\ pc' = [pc EXCEPT ![r] = "await_validator"]
            /\ UNCHANGED resp
    /\ UNCHANGED <<server, freecad, now, loop, reqtext, formats, rid, rc, tc, out>>

\* whose data a ZIP of the existing export files holds
Packaged(r) ==
    LET members == {fs[<<k, rid[r]>>] :
                      k \in {f \in output_files(formats[r]) : Exists(<<f, rid[r]>>)}}
    IN  IF members \subseteq {r} THEN r ELSE CHOOSE w \in members : w # r

\* main.py generate_cad from the validator's exit to its return
MainAfterValidator(r) ==
    /\ server = "main" /\ pc[r] = "await_validator" /\ kernel[r].st = "validated"
    /\ pc' = [pc EXCEPT ![r] = "respond"]
    /\ IF Len(formats[r]) > 1
       THEN /\ fs' = Write(Unlink(fs, <<"validate", rid[r]>>), <<"zip", rid[r]>>,
                           Packaged(r))
            /\ resp' = [resp EXCEPT ![r] = FileResponse(<<"zip", rid[r]>>)]
       ELSE /\ fs' = Unlink(fs, <<"validate", rid[r]>>)
            /\ resp' = [resp EXCEPT ![r] = FileResponse(FirstFile(r))]
    /\ UNCHANGED <<server, freecad, now, loop, reqtext, formats, rid, kernel, rc,
                   hist, tc, out>>

\* server.py generate_cad up to "await process.communicate()"
ServerBegin(r) ==
    /\ server = "server" /\ pc[r] = "idle"
    /\ \E text \in PipelinePrompts \cup {OverlongBoltPrompt}, id \in IdSpace :
         /\ reqtext' = [reqtext EXCEPT ![r] = text]
         /\ IF ~freecad
            THEN /\ Reply(r, ErrorResponse(500))
                 /\ UNCHANGED <<rid, kernel, hist, fs>>
            \* py_script is written and run whatever generate returned
            ELSE /\ rid' = [rid EXCEPT ![r] = id]
                 /\ hist' = [hist EXCEPT ![r].extracted = TRUE, ![r].generate = TRUE,
                                         ![r].script = TRUE, ![r].runs = @ + 1]
                 /\ fs' = Write(fs, <<"script", id>>, r)
                 /\ Spawn(r)
                 /\ UNCHANGED resp
    /\ formats' = [formats EXCEPT ![r] = <<"stl">>]
    /\ UNCHANGED <<server, freecad, now, loop, rc, tc, out>>

\* server.py generate_cad from the kernel's exit to its return
ServerAfterKernel(r) ==
    /\ server = "server" /\ pc[r] = "await_kernel" /\ kernel[r].st = "exited"
    /\ hist' = [hist EXCEPT ![r].checked = TRUE,
                            ![r].missing = ~Exists(<<"stl", rid[r]>>)]
    /\ IF \/ KernelFailed(rc[r]) \/ ~Exists(<<"stl", rid[r]>>)
          \* an exception of the DFM analysis is answered like a kernel failure
          \/ ~DFMAnalyzer_analyze(SmartParser_detect_shape(reqtext[r]),
                                  SmartParser_extract_dimensions(reqtext[r]),
                                  "steel").ok
       THEN Reply(r, ErrorResponse(500))
       ELSE /\ resp' = [resp EXCEPT ![r] = FileResponse(<<"stl", rid[r]>>)]
            /\ pc' = [pc EXCEPT ![r] = "respond"]
    /\ UNCHANGED <<server, freecad, now, loop, reqtext, formats, rid, kernel, rc,
                   fs, tc, out>>

\* server_COMPLETE_v6.py generate_cad (useai false) up to subprocess.run; the
\* handler is synchronous, so the event loop serves nothing else until it
\* returns
V6Begin(r) ==
    /\ server = "v6" /\ pc[r] = "idle" /\ loop = NoReq
    /\ \E text \in PipelinePrompts :
         LET dims == v6_extract_dimensions(text)
             session_id == now
         IN  /\ reqtext' = [reqtext EXCEPT ![r] = text]
             /\ rid' = [rid EXCEPT ![r] = session_id]
             /\ IF DOMAIN dims = {}
                THEN /\ Reply(r, ErrorResponse(400))
                     /\ hist' = [hist EXCEPT ![r].extracted = TRUE]
                     /\ UNCHANGED <<kernel, fs, loop>>
                ELSE IF ~freecad
                THEN /\ Reply(r, ErrorResponse(500))
                     /\ hist' = [hist EXCEPT ![r].extracted = TRUE,
                                             ![r].generate = TRUE,
                                             ![r].script = TRUE]
                     /\ fs' = Write(fs, <<"script", session_id>>, r)
                     /\ UNCHANGED <<kernel, loop>>
                ELSE /\ hist' = [hist EXCEPT ![r].extracted = TRUE,
                                             ![r].generate = TRUE,
                                             ![r].script = TRUE, ![r].runs = @ + 1]
                     /\ fs' = Write(fs, <<"script", session_id>>, r)
                     /\ Spawn(r)
                     /\ loop' = r
                     /\ UNCHANGED resp
    /\ formats' = [formats EXCEPT ![r] = <<"stl">>]
    /\ UNCHANGED <<server, freecad, now, rc, tc, out>>

\* subprocess.run(.., timeout=120) raises TimeoutExpired after killing the child
V6Timeout(r) ==
    /\ server = "v6" /\ pc[r] = "await_kernel"
    /\ kernel[r].st \in {"spawned", "running"}
    /\ kernel' = [kernel EXCEPT ![r].st = "killed"]
    /\ Reply(r, ErrorResponse(500))
    /\ loop' = NoReq
    /\ UNCHANGED <<server, freecad, now, reqtext, formats, rid, rc, hist, fs, tc, out>>

\* server_COMPLETE_v6.py generate_cad from the return of subprocess.run on
V6AfterKernel(r) ==
    /\ server = "v6" /\ pc[r] = "await_kernel" /\ kernel[r].st = "exited"
    /\ hist' = [hist EXCEPT ![r].checked = TRUE,
                            ![r].missing = ~Exists(<<"stl", rid[r]>>)]
    /\ IF ~Exists(<<"stl", rid[r]>>)
       THEN Reply(r, ErrorResponse(500))
       ELSE /\ resp' = [resp EXCEPT ![r] = FileResponse(<<"stl", rid[r]>>)]
            /\ pc' = [pc EXCEPT ![r] = "respond"]
    /\ loop' = NoReq
    /\ UNCHANGED <<server, freecad, now, reqtext, formats, rid, kernel, rc, fs,
                   tc, out>>

\* the kernel process opens the script file it was started on
KernelLoad(r) ==
    /\ kernel[r].st = "spawned"
    /\ kernel' = [kernel EXCEPT ![r] = [st |-> "running",
                                        of |-> fs[<<"script", rid[r]>>]]]
    /\ UNCHANGED <<server, freecad, now, loop, pc, reqtext, formats, rid, rc, resp,
                   hist, fs, tc, out>>

\* the export files the loaded script names; server.py's script of an empty
\* py_script is the Mesh.write line alone, which has no object to write
Exports(r) ==
    IF server = "main" THEN output_files(formats[kernel[r].of])
    ELSE IF EmptyScript(kernel[r].of) THEN {}
    ELSE {"stl"}

\* the kernel process exits: with any exit code, having written any of the
\* export files of its script (each export of main.py's script is wrapped in
\* try/except)
KernelExit(r) ==
    /\ kernel[r].st = "running"
    /\ \E code \in {0, 1}, written \in SUBSET Exports(r) :
         /\ rc' = [rc EXCEPT ![r] = code]
         /\ fs' = [q \in {<<k, rid[r]>> : k \in written} |-> kernel[r].of] @@ fs
    /\ kernel' = [kernel EXCEPT ![r].st = "exited"]
    /\ UNCHANGED <<server, freecad, now, loop, pc, reqtext, formats, rid, resp,
                   hist, tc, out>>

\* the FreeCAD process of ExportManager.validate_export exits
ValidatorExit(r) ==
    /\ kernel[r].st = "validating"
    /\ kernel' = [kernel EXCEPT ![r].st = "validated"]
    /\ UNCHANGED <<server, freecad, now, loop, pc, reqtext, formats, rid, rc, resp,
                   hist, fs, tc, out>>

\* starlette sends the FileResponse: the file is opened and read now
Send(r) ==
    /\ pc[r] = "respond" /\ loop = NoReq
    /\ IF Exists(resp[r].path)
       THEN Reply(r, [resp[r] EXCEPT !.data = fs[resp[r].path]])
       ELSE Reply(r, ErrorResponse(500))
    /\ UNCHANGED <<server, freecad, now, loop, reqtext, formats, rid, kernel, rc,
                   hist, fs, tc, out>>

\* time.time() advances (only v6 reads the clock)
Tick ==
    /\ server = "v6" /\ now < MaxClock
    /\ now' = now + 1
    /\ UNCHANGED <<server, freecad, loop, pc, reqtext, formats, rid, kernel, rc,
                   resp, hist, fs, tc, out>>

Init ==
    /\ server \in {"main", "server", "v6"}
    /\ freecad \in BOOLEAN
    /\ RequestsAtRest
    /\ tc = NoResult /\ out = NoResult

Handler(r) ==
    \/ MainBegin(r) \/ MainAfterKernel(r) \/ MainAfterValidator(r)
    \/ ServerBegin(r) \/ ServerAfterKernel(r)
    \/ V6Begin(r) \/ V6AfterKernel(r) \/ V6Timeout(r)

Next ==
    \/ \E r \in Requests : Handler(r)
    \/ \E r \in Requests : KernelLoad(r) \/ KernelExit(r) \/ ValidatorExit(r)
    \/ \E r \in Requests : Send(r)
    \/ Tick

Spec == Init /\ [][Next]_vars

\* The event loop resumes a handler whose await has completed, the transport
\* sends a prepared response, and v6's subprocess.run times out on a kernel
\* that is still running.  Nothing obliges a kernel or validator process to
\* exit, a client to send a request, or the wall clock to be read.
FairSpec ==
    /\ Spec
    /\ \A r \in Requests :
         /\ WF_vars(MainAfterKernel(r)) /\ WF_vars(MainAfterValidator(r))
         /\ WF_vars(ServerAfterKernel(r))
         /\ WF_vars(V6AfterKernel(r)) /\ WF_vars(V6Timeout(r))
         /\ WF_vars(Send(r))

-----------------------------------------------------------------------------
(* Properties of the pipeline *)

InFlight(r) == pc[r] \notin {"idle", "done"}

\* C1: in main.py's pipeline, a request whose extractor returned the empty
\* DimensionSet is found invalid with the "No dimensions extracted" error and
\* is rejected with 400 before any later stage: generate is not called, no
\* script is written, no kernel is started.
C1_EmptyDimensionsRejected ==
    \A r \in Requests :
        (/\ server = "main" /\ hist[r].extracted
         /\ extract_dimensions_with_tolerance(reqtext[r]) = EmptyDims)
        => LET v == validate_parsed_dimensions(EmptyDims)
           IN  /\ ~v.valid /\ NoDimensionsError \in v.errors
               /\ pc[r] = "done" /\ resp[r] = ErrorResponse(400)
               /\ ~hist[r].generate /\ ~hist[r].script /\ hist[r].runs = 0
               /\ kernel[r] = NoKernel
               /\ \A q \in DOMAIN fs : fs[q] # r

\* "make something nice" reached main.py's validation and was answered 400
C1_Witness ==
    \E r \in Requests :
        /\ server = "main" /\ hist[r].extracted /\ reqtext[r] = NothingPrompt
        /\ resp[r].code = 400

\* C2: every request that has started the kernel eventually completes.
C2_KernelStartedCompletes ==
    \A r \in Requests : (hist[r].runs > 0) ~> (pc[r] = "done")

\* C3: requests in flight at the same time have distinct identifiers (hence
\* distinct script and export paths), no kernel executes a script another
\* request wrote, and no request returns a file holding another request's data.
C3_RequestUniquePaths ==
    /\ \A r1, r2 \in Requests :
         (r1 # r2 /\ InFlight(r1) /\ InFlight(r2)) => rid[r1] # rid[r2]
    /\ \A r \in Requests :
         /\ kernel[r].of \in {NoReq, r}
         /\ resp[r].kind = "file" => resp[r].data \in {NoReq, r}

\* C4: in main.py and server.py, once the handler has seen the kernel exit,
\* a non-zero exit code or a missing first export file ends the request with
\* an error response and never a file response; the generation script is run
\* at most once per request.
C4_KernelFailureIsError ==
    \A r \in Requests :
        server \in {"main", "server"} =>
            /\ hist[r].runs <= 1
            /\ (hist[r].checked /\ (rc[r] # 0 \/ hist[r].missing))
               => (pc[r] = "done" /\ resp[r] = ErrorResponse(500))

\* main.py saw the kernel exit with a non-zero code although the first export
\* file was there, and answered 500
C4_Witness ==
    \E r \in Requests :
        /\ server = "main" /\ hist[r].checked /\ rc[r] # 0 /\ ~hist[r].missing
        /\ hist[r].runs = 1 /\ resp[r] = ErrorResponse(500)

-----------------------------------------------------------------------------
(* The gear profile: the loop of the script that CodeGenerator emits for a  *)
(* gear, run by the kernel.  An angle is kept as its number of half-tooth   *)
(* steps; cos and sin have the period of one turn, 2 * num_teeth steps.     *)

MaxTeeth == 4

GearRadii == {MM(10), MM(30), MM(45)}

\* server_COMPLETE_v6.py, CodeGenerator.create_base, shape "gear"
v6_create_base_gear(dims) ==
    Plan("gear",
         "outer_radius" :> GetDefault(dims, "radius",
                                      Half(GetDefault(dims, "diameter", Numv(MM(60))))) @@
         "height"       :> GetDefault(dims, "height", Numv(MM(10))) @@
         "num_teeth"    :> IntOf(GetDefault(dims, "teeth", Numv(MM(20)))),
         << >>)

\* range(num_teeth * 2 + 1)
ProfileStepsOpen(num_teeth) == num_teeth * 2

ProfileSteps(num_teeth) == num_teeth * 2 + 1

\* FreeCAD.Vector(r_curr * cos(angle), r_curr * sin(angle), 0) with
\* angle = (i * tooth_angle) / 2 and tooth_angle = (2 * pi) / num_teeth
Vector(r_curr, i, num_teeth) ==
    [r |-> r_curr, step |-> i % (2 * num_teeth), of |-> 2 * num_teeth]

GearInit ==
    /\ PipelineAtRest
    /\ out = NoResult
    /\ tc \in [srv : Servers, teeth : 0..MaxTeeth, radius : GearRadii]

\* the script up to "points = []"
GearScriptBegin ==
    /\ out = NoResult
    /\ LET dims == "teeth" :> Numv(MM(tc.teeth)) @@ "radius" :> Numv(tc.radius)
           plan == IF tc.srv = "v6" THEN v6_create_base_gear(dims)
                   ELSE Generate(tc.srv, "gear", dims)
           outer_radius == plan.p["outer_radius"].n
           num_teeth == plan.p["num_teeth"].n \div UnitsPerMM
           tooth_depth == (outer_radius * 15) \div 100
       IN  out' = IF num_teeth = 0
                  THEN [op |-> "gear_error"]     \* (2 * math.pi) / 0
                  ELSE [op |-> "gear", outer_radius |-> outer_radius,
                        base_radius |-> outer_radius - tooth_depth,
                        num_teeth |-> num_teeth, i |-> 0, points |-> << >>]
    /\ UNCHANGED <<pipeVars, tc>>

\* one pass of "for i in range(num_teeth * 2 + 1)"
GearLoop ==
    /\ out.op = "gear" /\ out.i < ProfileSteps(out.num_teeth)
    /\ LET r_curr == IF out.i % 2 = 0 THEN out.outer_radius ELSE out.base_radius
       IN  out' = [out EXCEPT !.i = @ + 1,
                              !.points = Append(@, Vector(r_curr, out.i, out.num_teeth))]
    /\ UNCHANGED <<pipeVars, tc>>

\* gear_wire = Part.makePolygon(points)
GearPolygon ==
    /\ out.op = "gear" /\ out.i >= ProfileSteps(out.num_teeth)
    /\ out' = [out EXCEPT !.op = "gear_wire"]
    /\ UNCHANGED <<pipeVars, tc>>

GearNext == GearScriptBegin \/ GearLoop \/ GearPolygon

GearSpec == GearInit /\ [][GearNext]_vars

\* C10: the profile of a gear of N >= 1 teeth has 2N+1 vertices; vertex i lies
\* on outer_radius for even i and on base_radius = 0.85 x outer_radius for odd
\* i, at angular step i of 2N equal steps; the last vertex is the first.
C10_GearProfileClosed ==
    out.op = "gear_wire" =>
        LET N == out.num_teeth
            pts == out.points
        IN  /\ N >= 1
            /\ Len(pts) = 2 * N + 1
            /\ 100 * out.base_radius = 85 * out.outer_radius
            /\ \A i \in 0..(2 * N) :
                 /\ i + 1 \in DOMAIN pts
                 /\ pts[i + 1].r = IF i % 2 = 0 THEN out.outer_radius
                                   ELSE out.base_radius
                 /\ pts[i + 1].of = 2 * N
                 /\ pts[i + 1].step = i % (2 * N)
            /\ pts[Len(pts)] = pts[1]

\* the polygon of a gear of three teeth was made of seven vertices
C10_Witness ==
    /\ out.op = "gear_wire" /\ out.num_teeth = 3 /\ tc.teeth = 3
    /\ Len(out.points) = 7

-----------------------------------------------------------------------------
(* CodeGenerator.generate of main.py and of server.py on DimensionSets: a   *)
(* dictionary of at most MaxGenKeys of the keys the generators read, each   *)
(* absent, None, 0, or a length.                                            *)

MaxGenKeys == 3

\* the keys the generators read, each absent, None, 0, or a length
GenDimSets ==
    LET keys == {"length", "width", "height", "diameter", "radius", "teeth"}
        values == {Nonev, Numv(0), Numv(MM(10)), Numv(MM(50))}
    IN  UNION {[D -> values] :
               D \in {D \in SUBSET keys : Cardinality(D) <= MaxGenKeys}}

GenInit ==
    /\ PipelineAtRest
    /\ out = NoResult
    /\ tc \in [srv : Servers \ {"v6"}, shape : Shapes, dims : GenDimSets]

\* py_script, fit_notes = CodeGenerator.generate(shape, dims)
CallGenerateOn ==
    /\ out = NoResult
    /\ out' = [op |-> "generate", r |-> Generate(tc.srv, tc.shape, tc.dims)]
    /\ UNCHANGED <<pipeVars, tc>>

GenSpec == GenInit /\ [][CallGenerateOn]_vars

\* C11: generate never returns a script for an invalid parameter combination:
\* a returned gear plan has a tooth count above zero and a returned cylinder
\* plan has a radius above zero; otherwise generation reports failure.
C11_InvalidPlanRejected ==
    (out.op = "generate" /\ out.r.ok) =>
        /\ out.r.base = "gear" => out.r.p["num_teeth"].n > 0
        /\ out.r.base = "gear" => out.r.p["outer_radius"].n > 0
        /\ out.r.base = "cylinder" => out.r.p["radius"].n > 0

\* C12: for a box, each of length, width, height that is present (a number,
\* 0 and the default's own value included) appears unchanged in the synthesized
\* box, and the defaults 50 / 50 / 10 stand only for absent dimensions.
C12_BoxDimensionsKept ==
    (out.op = "generate" /\ tc.shape = "box" /\ out.r.ok) =>
        \A key \in {"length", "width", "height"} :
            out.r.p[key] =
                IF Get(tc.dims, key).k = "num" THEN Get(tc.dims, key)
                ELSE Numv(MM(IF key = "height" THEN 10 ELSE 50))

\* C13: a tube or washer plan is an outer cylinder (standing on z = 0) minus
\* an inner cylinder that starts below the outer's bottom face and ends above
\* its top face, so that the cut has no coincident end faces.
C13_InnerCylinderExtendsBeyond ==
    (out.op = "generate" /\ out.r.ok /\ out.r.base \in {"tube", "washer"}) =>
        /\ out.r.p["inner_z"].n < 0
        /\ out.r.p["inner_z"].n + out.r.p["inner_height"].n
             > out.r.p["outer_height"].n

-----------------------------------------------------------------------------
(* extract_dimensions_with_tolerance on prompts made of one or two phrases  *)
(* "<number> [<unit>] <dimension name>", the unit being any token of the    *)
(* conversion table or none ("").                                           *)

MaxExtractValue == 2

ExtractPhrases ==
    [v  : {MM(k) : k \in 1..MaxExtractValue},
     u  : {"", "mm", "cm", "m", "in", "inch", "inches", "\"", "ft", "foot",
           "feet", "'"},
     kw : {"length", "width", "height", "diameter", "radius"}]

\* the tokens of the phrases, in order
PromptOf(phrases) ==
    LET toks(ph) == << Num(ph.v) >>
                    \o (IF ph.u = "" THEN << >> ELSE << Word(ph.u) >>)
                    \o << Word(ph.kw) >>
    IN  IF Len(phrases) = 1 THEN toks(phrases[1])
        ELSE toks(phrases[1]) \o toks(phrases[2])

ExtractInit ==
    /\ PipelineAtRest
    /\ out = NoResult
    /\ tc \in [phrases : {<< p >> : p \in ExtractPhrases}
                         \cup {<< p, q >> : p \in ExtractPhrases, q \in ExtractPhrases}]

\* dims = EnhancedParser.extract_dimensions_with_tolerance(prompt)
CallExtract ==
    /\ out = NoResult
    /\ LET dims == extract_dimensions_with_tolerance(PromptOf(tc.phrases))
       IN  out' = [op |-> "extract", dims |-> dims]
    /\ UNCHANGED <<pipeVars, tc>>

ExtractSpec == ExtractInit /\ [][CallExtract]_vars

\* C14: when only one of diameter and radius is stated the other is derived;
\* a stated value is never replaced by a derived one, so when both are stated
\* (in units the patterns accept) the stored diameter and radius are the stated
\* values.
C14_StatedValuesKept ==
    out.op = "extract" =>
        LET ph == tc.phrases
            accepted == \A i \in DOMAIN ph : ph[i].u \in NamedUnits \cup {""}
            unit(i) == IF ph[i].u = "" THEN "mm" ELSE ph[i].u
            stated(kw) == Leftmost({i \in DOMAIN ph : ph[i].kw = kw})
            value(kw) == Numv(ToMM(ph[stated(kw)].v, unit(stated(kw))))
            d == stated("diameter")
            r == stated("radius")
        IN  accepted =>
              /\ d # 0 => Get(out.dims, "diameter") = value("diameter")
              /\ r # 0 => Get(out.dims, "radius") = value("radius")
              /\ (d # 0 /\ r = 0) =>
                    Get(out.dims, "radius") = Half(value("diameter"))
              /\ (d = 0 /\ r # 0) =>
                    Get(out.dims, "diameter") = Twice(value("radius"))

\* C15: a named dimension written with any unit token of the conversion table
\* is stored as the number times the token's factor, and without a unit token
\* as millimetres unchanged.
C15_EveryTableUnitConverted ==
    (out.op = "extract" /\ Len(tc.phrases) = 1) =>
        LET ph == tc.phrases[1]
        IN  Get(out.dims, ph.kw) =
                Numv(ToMM(ph.v, IF ph.u = "" THEN "mm" ELSE ph.u))

-----------------------------------------------------------------------------
(* EnhancedParser.detect_assembly.  The prompt is a sequence of words, none *)
(* of which contains a keyword as a proper substring.  A component name is  *)
(* the pair of the shape keyword and the suffix number of "shape_i" (0 for  *)
(* the bare keyword).                                                       *)

MaxAssemblyLen == 3

detect_assembly(prompt) ==
    LET low == LowerText(prompt)
        words == {low[i].w : i \in DOMAIN low}
        \* ' and ' and ' with ' need a blank, hence a word, on both sides
        inner == {low[i].w : i \in 2..(Len(low) - 1)}
        is_assembly ==
            \/ words \cap {"assembly", "assemble", "assembled", "multiple",
                           "several", "two", "three"} # {}
            \/ inner \cap {"and", "with"} # {}
        shape_keywords ==
            << "gear", "shaft", "housing", "plate", "bracket", "cylinder", "box",
               "motor", "bearing", "bolt", "nut", "washer", "rod", "tube", "disk" >>
        \* prompt_lower.count(shape)
        count(shape) == Cardinality({i \in DOMAIN low : low[i].w = shape})
        named(shape) ==
            IF count(shape) > 1 THEN [i \in 1..count(shape) |-> << shape, i >>]
            ELSE IF count(shape) = 1 THEN << << shape, 0 >> >>
            ELSE << >>
        \* the loop over shape_keywords; dict.fromkeys finds no duplicate to drop
        components[k \in 0..Len(shape_keywords)] ==
            IF k = 0 THEN << >>
            ELSE components[k - 1] \o named(shape_keywords[k])
        found == components[Len(shape_keywords)]
    IN  IF ~is_assembly THEN [is_assembly |-> FALSE, components |-> << >>]
        ELSE [is_assembly |-> Len(found) > 1, components |-> found]

AssemblyInit ==
    /\ PipelineAtRest
    /\ out = NoResult
    /\ tc \in [text : UNION {[1..n -> {Word("gear"), Word("shaft"), Word("motor"),
                                       Word("housing"), Word("box"), Word("and"),
                                       Word("with"), Word("simple"),
                                       Word("assembly")}] :
                             n \in 0..MaxAssemblyLen}]

\* is_assembly, components = EnhancedParser.detect_assembly(prompt)
CallDetectAssembly ==
    /\ out = NoResult
    /\ out' = [op |-> "detect_assembly", r |-> detect_assembly(tc.text)]
    /\ UNCHANGED <<pipeVars, tc>>

AssemblySpec == AssemblyInit /\ [][CallDetectAssembly]_vars

\* C16: without a connective or assembly keyword the result is (False, []);
\* otherwise the components are the component words of the prompt, without
\* duplicates, in the order of their first appearance, and is_assembly is true
\* exactly when there are at least two of them.
C16_ComponentsInPromptOrder ==
    out.op = "detect_assembly" =>
        LET text == tc.text
            first == {i \in DOMAIN text :
                        /\ text[i].w \in {"gear", "shaft", "motor", "housing", "box"}
                        /\ \A j \in 1..(i - 1) : text[j].w # text[i].w}
            rank(i) == Cardinality({j \in first : j <= i})
            expected == [k \in 1..Cardinality(first) |->
                           << text[CHOOSE i \in first : rank(i) = k].w, 0 >>]
            keyword == \/ \E i \in DOMAIN text : text[i].w = "assembly"
                       \/ \E i \in 2..(Len(text) - 1) : text[i].w \in {"and", "with"}
        IN  IF ~keyword THEN out.r = [is_assembly |-> FALSE, components |-> << >>]
            ELSE /\ out.r.components = expected
                 /\ out.r.is_assembly = (Len(expected) >= 2)

-----------------------------------------------------------------------------
(* DFMAnalyzer.analyze and CostCalculator.calculate on a shape, a material  *)
(* and a DimensionSet that states at most MaxAnalysisKeys dimensions; the   *)
(* dimensions not stated are None, as server.py's parser leaves them, or    *)
(* absent.                                                                  *)

MaxAnalysisKeys == 2

AnalysisInit ==
    /\ PipelineAtRest
    /\ out = NoResult
    /\ LET keys == {"length", "width", "height", "diameter", "radius", "teeth"}
           sizes == {Numv(0), Numv(MM(1)), Numv(MM(30))}
       IN  tc \in {[shape |-> shape, material |-> material, dims |-> stated @@ rest] :
                   shape \in Shapes,
                   material \in {"steel", "aluminum", "abs_plastic", "titanium",
                                 "brass", "polycarb", "copper", "wood"},
                   stated \in UNION {[D -> sizes] :
                                     D \in {D \in SUBSET keys :
                                              Cardinality(D) <= MaxAnalysisKeys}},
                   rest \in {EmptyDims, [key \in keys |-> Nonev]}}

\* dfm_result = DFMAnalyzer.analyze(shape, dims, material)
CallAnalyze ==
    /\ out = NoResult
    /\ out' = [op |-> "analyze",
               r |-> DFMAnalyzer_analyze(tc.shape, tc.dims, tc.material)]
    /\ UNCHANGED <<pipeVars, tc>>

AnalysisSpec == AnalysisInit /\ [][CallAnalyze]_vars

-----------------------------------------------------------------------------
(* CostCalculator.calculate on a shape, a material and a DimensionSet that  *)
(* states at most MaxCostKeys linear dimensions, and again with one stated  *)
(* dimension made larger while the others stay as they are.                 *)

MaxCostKeys == 2

CostInit ==
    /\ PipelineAtRest
    /\ out = NoResult
    /\ LET keys == {"length", "width", "height", "diameter", "radius",
                    "inner_diameter"}
           sizes == {Numv(0), Numv(MM(1)), Numv(MM(30))}
       IN  tc \in [shape : Shapes,
                   material : {"steel", "aluminum", "abs_plastic", "titanium",
                               "brass", "polycarb", "copper", "wood"},
                   dims : UNION {[D -> sizes] :
                                 D \in {D \in SUBSET keys :
                                          Cardinality(D) <= MaxCostKeys}}]

\* cost_result = CostCalculator.calculate(shape, dims, material)
CallCalculate ==
    /\ out = NoResult
    /\ LET \* total_cost and the price for 1 unit round the same float
           Outcomes(c) ==
               {o \in [material_cost : c.material_cost,
                       machining_time_min : c.machining_time_min,
                       machining_cost : c.machining_cost,
                       setup_cost : c.setup_cost,
                       total_cost : c.total_cost,
                       weight_grams : c.weight_grams,
                       volume_cm3 : c.volume_cm3,
                       qty_1 : c.qty_1, qty_10 : c.qty_10,
                       qty_100 : c.qty_100, qty_1000 : c.qty_1000,
                       complexity : c.complexity] : o.qty_1 = o.total_cost}
           Larger(v) == IF v.n = 0 THEN Numv(MM(1))
                        ELSE IF v.n = MM(1) THEN Numv(MM(30)) ELSE Twice(v)
       IN  \E r \in Outcomes(CostCalculator_calculate(tc.shape, tc.dims, tc.material)) :
             \/ out' = [op |-> "calculate", r |-> r, key |-> "", other |-> r]
             \/ \E key \in DOMAIN tc.dims :
                  \E other \in Outcomes(CostCalculator_calculate(
                                   tc.shape, (key :> Larger(tc.dims[key])) @@ tc.dims,
                                   tc.material)) :
                    out' = [op |-> "calculate", r |-> r, key |-> key, other |-> other]
    /\ UNCHANGED <<pipeVars, tc>>

CostSpec == CostInit /\ [][CallCalculate]_vars

\* C18: in every result of calculate the returned total_cost is setup_cost +
\* material_cost + machining_cost, the returned machining_cost is the returned
\* machining time (at least 5 minutes) at 600 an hour, and the prices for 1,
\* 10, 100 and 1000 units are the returned total times 1, 0.85, 0.65 and 0.45
\* (to the nearest 1/100)
C18_TotalIsSumOfParts ==
    out.op = "calculate" =>
        LET r == out.r
            Near(price, percent) ==
                /\ 100 * price - percent * r.total_cost <= 50
                /\ percent * r.total_cost - 100 * price <= 50
        IN  /\ r.total_cost = r.setup_cost + r.material_cost + r.machining_cost
            /\ r.machining_time_min >= 50
            /\ r.machining_cost = 100 * r.machining_time_min
            /\ r.qty_1 = r.total_cost
            /\ Near(r.qty_10, 85)
            /\ Near(r.qty_100, 65)
            /\ Near(r.qty_1000, 45)

\* C19: when one stated, positive linear dimension is made larger and the
\* shape, the material and the other dimensions stay the same, calculate
\* returns a larger volume and a larger material_cost
C19_LargerDimensionCostsMore ==
    (out.op = "calculate" /\ out.key # "" /\ tc.dims[out.key].n > 0) =>
        /\ out.other.volume_cm3 > out.r.volume_cm3
        /\ out.other.material_cost > out.r.material_cost

\* C20: the complexity multiplier calculate uses is 1.0 for a box, 1.5 for a
\* cylinder, a piston and a flange, and 2.5 for a gear and a sphere
C20_ComplexityByFamily ==
    out.op = "calculate" =>
        /\ tc.shape = "box" => out.r.complexity = 10
        /\ tc.shape \in {"cylinder", "piston", "flange"} => out.r.complexity = 15
        /\ tc.shape \in {"gear", "sphere"} => out.r.complexity = 25

\* C21: for every shape and DimensionSet that server.py's generator turns into
\* a plan, the length, width, height, diameter and radius that analyze
\* computes with are the plan's values, and calculate gives the estimate it
\* gives for the plan's values
C21_ReportUsesPlanValues ==
    (out.op = "generate" /\ tc.srv = "server" /\ out.r.ok) =>
        LET a == DFMAnalyzer_dimensions(tc.dims)
            p == out.r.p
            SameCost(plan) ==
                CostCalculator_calculate(tc.shape, tc.dims, "steel")
                    = CostCalculator_calculate(tc.shape, plan, "steel")
        IN  /\ tc.shape = "box" =>
                  /\ a.length = p["length"] /\ a.width = p["width"]
                  /\ a.height = p["height"]
                  /\ SameCost(p)
            /\ tc.shape \in CylinderFamily =>
                  /\ a.height = p["height"] /\ a.h = p["height"]
                  /\ a.radius = p["radius"]
                  /\ tc.shape = "cylinder" => a.diameter = Twice(p["radius"])
                  /\ SameCost(p)
            /\ tc.shape = "gear" =>
                  /\ a.height = p["height"]
                  /\ a.diameter = Twice(p["outer_radius"])
                  /\ SameCost("radius" :> p["outer_radius"] @@ "height" :> p["height"])
            /\ tc.shape = "sphere" => SameCost(p)

\* C29: for a DimensionSet whose stated values are all positive, the
\* volume_cm3, weight_grams and material_cost that calculate returns are not
\* negative
C29_CostNeverNegative ==
    (out.op = "calculate" /\ \A key \in DOMAIN tc.dims : tc.dims[key].n > 0) =>
        /\ out.r.volume_cm3 >= 0
        /\ out.r.weight_grams >= 0
        /\ out.r.material_cost >= 0

\* C24: in both tolerance tables a nominal size lies in at most one bracket
\* (lower bound excluded, upper bound included), so the scan finds that
\* bracket whatever the order; a bracket's upper bound is in that bracket, its
\* lower bound is in the bracket below (in none for the first), a nominal of
\* at most 0 or above the last upper bound is in none, and an H7 lookup
\* returns the deviation of the one bracket, or 0
C24_BracketsDisjointHalfOpen ==
    out.op = "get_adjustment" =>
        \A table \in {ISO_H7, ISO_g6} :
            LET hits == BracketOf(table, tc.nominal)
                found == FirstBracket(table, tc.nominal)
            IN  /\ Cardinality(hits) <= 1
                /\ hits = IF found = 0 THEN {} ELSE {found}
                /\ \A j \in 1..Len(table) :
                      /\ FirstBracket(table, table[j].hi) = j
                      /\ FirstBracket(table, table[j].lo) = j - 1
                      /\ tc.nominal = table[j].hi => found = j
                      /\ tc.nominal = table[j].lo => found = j - 1
                /\ (tc.nominal <= 0 \/ tc.nominal > table[Len(table)].hi) => found = 0
                /\ (tc.fit \in {"H7", "h7"} /\ table = ISO_H7) =>
                      out.r.adj = IF hits = {} THEN 0
                                  ELSE table[CHOOSE j \in hits : TRUE].dev

\* the H7 lookup of 30 mm, the upper bound of 18..30 and the lower bound of
\* 30..50, returned the deviation 0.0105 of 18..30
C24_Witness ==
    /\ out.op = "get_adjustment"
    /\ tc.nominal = MM(30) /\ tc.fit = "H7"
    /\ out.r.adj = E4(105)


\* C30: in server.py, a request whose CodeGenerator.generate returned the empty
\* script has no script file written and no kernel run started for it.
C30_EmptyScriptStopsRequest ==
    \A r \in Requests :
        (server = "server" /\ pc[r] # "idle" /\ hist[r].generate /\ EmptyScript(r))
            => (~hist[r].script /\ hist[r].runs = 0)

-----------------------------------------------------------------------------
(* main.py: start of the service.  tc describes the installation: whether   *)
(* ai_chat.py is the repository's file or is missing, whether the package    *)
(* google.generativeai is installed, and whether GEMINI_API_KEY is set.      *)
(* out is the state of the process and the log of the answered requests.     *)

MaxServiceRequests == 3

ServiceInit ==
    /\ PipelineAtRest
    /\ out = NoResult
    /\ tc \in [op : {"service"}, ai_chat : {"missing", "repository"},
                genai : BOOLEAN, key : BOOLEAN]

\* "import main" up to line 58.  Line 23 imports google.generativeai outside
\* any try; ai_chat.py line 98 applies @app.post where no name app is bound,
\* a NameError, which "except ImportError" of main.py does not catch
ImportMain ==
    /\ out = NoResult
    /\ out' = IF ~tc.genai
              THEN [op |-> "service", st |-> "ModuleNotFoundError",
                    AI_CHAT_AVAILABLE |-> FALSE, log |-> << >>]
              ELSE IF tc.ai_chat = "repository"
              THEN [op |-> "service", st |-> "NameError",
                    AI_CHAT_AVAILABLE |-> FALSE, log |-> << >>]
              \* ImportError caught: AI_CHAT_AVAILABLE = False, whatever the key
              ELSE [op |-> "service", st |-> "started",
                    AI_CHAT_AVAILABLE |-> FALSE, log |-> << >>]
    /\ UNCHANGED <<pipeVars, tc>>

Serving == out.op = "service" /\ out.st = "started" /\ Len(out.log) < MaxServiceRequests

\* POST /ai/chat.  Here ChatRequest is None (line 41), so the parameter of
\* the route is annotated None: the framework either rejects the body (422)
\* or calls the handler, which raises 503
ai_chat_endpoint ==
    /\ Serving
    /\ \E code \in IF out.AI_CHAT_AVAILABLE THEN {200, 500} ELSE {422, 503} :
         out' = [out EXCEPT !.log = Append(@, [route |-> "/ai/chat", code |-> code,
                                               text |-> << >>, shape |-> "",
                                               dims |-> << >>])]
    /\ UNCHANGED <<pipeVars, tc>>

\* POST /generate, phase 1: no name of ai_chat is used in generate_cad
generate_cad ==
    /\ Serving
    /\ \E text \in PipelinePrompts :
         LET dims == extract_dimensions_with_tolerance(text)
         IN  out' = [out EXCEPT !.log =
                        Append(@, [route |-> "/generate",
                                   code |-> IF validate_parsed_dimensions(dims).valid
                                            THEN 200 ELSE 400,
                                   text |-> text, shape |-> detect_shape(text),
                                   dims |-> dims])]
    /\ UNCHANGED <<pipeVars, tc>>

ServiceSpec == ServiceInit /\ [][ImportMain \/ ai_chat_endpoint \/ generate_cad]_vars

\* C22: when ai_chat cannot be loaded or no API key is set, the service starts,
\* every /generate request is answered from the deterministic parser's result,
\* and every /ai/chat request is answered 503.
C22_ServiceStartsWithoutAI ==
    (out.op = "service" /\ (tc.ai_chat # "loaded" \/ ~tc.key)) =>
        /\ out.st = "started"
        /\ \A i \in DOMAIN out.log :
              LET e == out.log[i]
              IN  /\ e.route = "/ai/chat" => e.code = 503
                  /\ e.route = "/generate" =>
                        /\ e.shape = detect_shape(e.text)
                        /\ e.dims = extract_dimensions_with_tolerance(e.text)

-----------------------------------------------------------------------------
(* cad_templates.py and cad_generator.py: the stepped shaft.  Both files are *)
(* absent from the sources; their behaviour is taken from the error taxonomy *)
(* (a step diameter >= the parent diameter is a geometry error, fatal for    *)
(* the request) and from the tests that call them.                           *)

\* the sizes of tests/test_cad_templates.py: 18, 25, 40 and 120 mm
ShaftSizes == {MM(18), MM(25), MM(40), MM(120)}

ShaftInit ==
    /\ PipelineAtRest
    /\ out = NoResult
    /\ tc \in [op : {"shaft"}, length : ShaftSizes, diameter : ShaftSizes,
                step_diameter : ShaftSizes, step_length : ShaftSizes]

\* the messages of the rules a parameter set breaks; only "<=" differs
ShaftTemplate_validate_lenient(params) ==
    {m \in {"Step diameter must be less than main diameter.",
            "Step length must be less than total length."} :
       \/ /\ m = "Step diameter must be less than main diameter."
          /\ params.step_diameter > params.diameter
       \/ /\ m = "Step length must be less than total length."
          /\ params.step_length > params.length}

\* ShaftTemplate.validate: the messages of the rules a parameter set breaks;
\* validate raises ValueError with one of them when there is any
ShaftTemplate_validate(params) ==
    {m \in {"Step diameter must be less than main diameter.",
            "Step length must be less than total length."} :
       \/ /\ m = "Step diameter must be less than main diameter."
          /\ params.step_diameter >= params.diameter
       \/ /\ m = "Step length must be less than total length."
          /\ params.step_length >= params.length}

\* shaft = ShaftTemplate(data); shaft.validate()
CallValidateShaft ==
    /\ out = NoResult /\ tc.op = "shaft"
    /\ \/ /\ ShaftTemplate_validate(tc) = {}
          /\ out' = [op |-> "validate", raised |-> "", message |-> "", files |-> {}]
       \/ \E m \in ShaftTemplate_validate(tc) :
             out' = [op |-> "validate", raised |-> "ValueError", message |-> m,
                     files |-> {}]
    /\ UNCHANGED <<pipeVars, tc>>

\* generate_shaft(data, output_dir): the template is validated before the
\* solid is built and exported; the returned path ends in ".step"
generate_shaft ==
    /\ out = NoResult /\ tc.op = "shaft"
    /\ \/ /\ ShaftTemplate_validate(tc) = {}
          /\ out' = [op |-> "generate_shaft", raised |-> "", message |-> "",
                     files |-> {"shaft.step"}]
       \/ \E m \in ShaftTemplate_validate(tc) :
             out' = [op |-> "generate_shaft", raised |-> "ValueError", message |-> m,
                     files |-> {}]
    /\ UNCHANGED <<pipeVars, tc>>

ShaftSpec == ShaftInit /\ [][CallValidateShaft \/ generate_shaft]_vars

\* C23: a shaft whose step_diameter >= diameter or whose step_length >= length
\* is rejected with a ValueError by validate and by generate_shaft, which then
\* writes no file; with both strictly smaller, validate returns and
\* generate_shaft writes one .step file.
C23_SteppedShaftValidated ==
    out.op \in {"validate", "generate_shaft"} =>
        IF tc.step_diameter >= tc.diameter \/ tc.step_length >= tc.length
        THEN /\ out.raised = "ValueError" /\ out.files = {}
             /\ (tc.step_length < tc.length) =>
                   out.message = "Step diameter must be less than main diameter."
             /\ (tc.step_diameter < tc.diameter) =>
                   out.message = "Step length must be less than total length."
        ELSE /\ out.raised = ""
             /\ out.files = IF out.op = "generate_shaft" THEN {"shaft.step"} ELSE {}

\* generate_shaft was called with step_diameter = diameter = 25 mm
C23_Witness ==
    /\ out.op = "generate_shaft" /\ out.raised = "ValueError" /\ out.files = {}
    /\ tc.diameter = MM(25) /\ tc.step_diameter = MM(25)
    /\ tc.length = MM(120) /\ tc.step_length = MM(40)

-----------------------------------------------------------------------------
(* server_COMPLETE_v6.py: feature detection, the generated script and its   *)
(* run in the kernel.  A script is the sequence of its blocks, each a record *)
(* [k, i, j, size]; the text from "if hole_objects or thread_objects:" to    *)
(* the print that follows it (lines 805-817) is read as the last block of    *)
(* the string create_holes returns, as in the scripts under src/outputs.     *)

\* the words of the feature phrases that contain keyword kw ("kw in prompt")
v6_words(kw) ==
    CASE kw = "hole"   -> {"hole", "holes"}
      [] kw = "corner" -> {"corner", "corners"}
      [] kw = "edge"   -> {"edge", "edges"}
      [] kw = "thread" -> {"thread", "threaded"}
      [] OTHER         -> {kw}

\* SmartParser.detect_holes: a list of at most one hole
v6_detect_holes(prompt) ==
    LET low == LowerText(prompt)
        Has(kw) == Mentions(low, v6_words(kw))
        \* (\d+\.?\d*)\s*mm?\s*(hole|drill|bore)
        di == Leftmost({i \in DOMAIN low :
                          /\ IsNumAt(low, i)
                          /\ WordAt(low, i + 1) \in {"mm", "m"}
                          /\ WordAt(low, i + 2) \in {"hole", "holes", "drill", "bore"}})
        sizes == [w \in {"m6", "m8", "m10"} |->
                    CASE w = "m6" -> MM(6) [] w = "m8" -> MM(8) [] OTHER -> MM(10)]
        \* m(\d+)
        ti == Leftmost({i \in DOMAIN low : low[i].w \in {"m6", "m8", "m10"}})
        threaded == ti # 0 \/ Has("thread")
        thread_size == IF ti = 0 THEN MM(6) ELSE sizes[low[ti].w]
        diameter == IF threaded THEN thread_size
                    ELSE IF di # 0 THEN low[di].n ELSE MM(5)
        \* (\d+)\s*x?\s*hole: also the digits of "m8 hole"
        ci == Leftmost({i \in DOMAIN low :
                          /\ IsNumAt(low, i) \/ low[i].w \in DOMAIN sizes
                          /\ \/ WordAt(low, i + 1) \in {"hole", "holes"}
                             \/ /\ WordAt(low, i + 1) = "x"
                                /\ WordAt(low, i + 2) \in {"hole", "holes"}})
        \* at\s*(\d+\.?\d*),\s*(\d+\.?\d*),?\s*(\d+\.?\d*)?
        ai == Leftmost({i \in DOMAIN low :
                          /\ low[i].w = "at" /\ IsNumAt(low, i + 1)
                          /\ WordAt(low, i + 2) = "," /\ IsNumAt(low, i + 3)})
        location == IF ai # 0 THEN "coordinates"
                    ELSE IF Has("corner") THEN "corners"
                    ELSE IF Has("edge") THEN "edges"
                    ELSE "center"
    IN  IF ~\E kw \in {"hole", "drill", "bore", "cut", "through", "thread",
                       "m6", "m8", "m10"} : Has(kw)
        THEN << >>
        ELSE << [count |-> IF ai = 0 /\ Has("corner") THEN 4
                           ELSE IF ci = 0 THEN 1
                           ELSE (IF IsNumAt(low, ci) THEN low[ci].n ELSE sizes[low[ci].w])
                                    \div UnitsPerMM,
                 diameter |-> diameter, location |-> location,
                 coordinates |-> IF ai = 0 THEN << >>
                                 ELSE <<low[ai + 1].n, low[ai + 3].n>>,
                 threaded |-> threaded] >>

\* SmartParser.detect_fillets / detect_chamfers: a list of at most one size;
\* "<word> 2 mm" or "2 mm <word>", 2.0 when no size is written
v6_detect_finish(prompt, word, alias) ==
    LET low == LowerText(prompt)
        after  == Leftmost({i \in DOMAIN low :
                              /\ low[i].w = word /\ IsNumAt(low, i + 1)
                              /\ WordAt(low, i + 2) \in {"mm", "m"}})
        before == Leftmost({i \in DOMAIN low :
                              /\ IsNumAt(low, i) /\ WordAt(low, i + 1) \in {"mm", "m"}
                              /\ WordAt(low, i + 2) = word})
    IN  IF ~Mentions(low, {word, alias}) THEN << >>
        ELSE IF after # 0 THEN << low[after + 1].n >>
        ELSE IF before # 0 THEN << low[before].n >>
        ELSE << MM(2) >>

Block(k, i, j, size) == [k |-> k, i |-> i, j |-> j, size |-> size]

\* CodeGenerator.create_base: shapes without a branch give a comment only
v6_create_base(shape) ==
    IF shape \in {"box", "cylinder", "sphere", "gear", "tube", "piston", "flange",
                  "crankshaft", "camshaft"}
    THEN << Block("base", 0, 0, 0) >>
    ELSE << Block("comment", 0, 0, 0) >>

\* the blocks of one hole: its cylinders, each followed by its thread
v6_hole_blocks(i, hole) ==
    LET radius == hole.diameter \div 2
        thread == IF hole.threaded THEN << Block("thread", i, 0, radius) >> ELSE << >>
    IN  IF hole.coordinates # << >>
        THEN << Block("tool", i, 0, radius) >> \o thread
        ELSE IF hole.location = "corners"
        THEN [j \in 1..4 |-> Block("tool", i, j - 1, radius)]
        ELSE IF hole.location = "center"
        THEN << Block("tool", i, 0, radius) >> \o thread
        ELSE << >>

\* CodeGenerator.create_holes
v6_create_holes(holes) ==
    LET RECURSIVE Blocks(_)
        Blocks(i) == IF i > Len(holes) THEN << >>
                     ELSE v6_hole_blocks(i - 1, holes[i]) \o Blocks(i + 1)
    IN  IF holes = << >> THEN << >>
        ELSE Blocks(1) \o << Block("cut", 0, 0, 0) >>

\* CodeGenerator.create_fillets / create_chamfers
v6_create_finish(k, sizes) == [i \in DOMAIN sizes |-> Block(k, i - 1, 0, sizes[i])]

\* the same parts with the finishing steps before the holes
v6_generate_finish_first(shape, holes, fillets, chamfers) ==
    v6_create_base(shape) \o v6_create_finish("fillet", fillets)
        \o v6_create_finish("chamfer", chamfers) \o v6_create_holes(holes)
        \o << Block("export", 0, 0, 0) >>

\* CodeGenerator.generate (the header creates the document only)
v6_generate(shape, holes, fillets, chamfers) ==
    v6_create_base(shape) \o v6_create_holes(holes)
        \o v6_create_finish("fillet", fillets) \o v6_create_finish("chamfer", chamfers)
        \o << Block("export", 0, 0, 0) >>

\* the phrases a prompt is put together from: one about holes, one about
\* fillets, one about chamfers
HolePhrases ==
    { << >>,
      << Num(MM(5)), Word("mm"), Word("hole") >>,
      << Num(MM(3)), Word("holes") >>,
      << Word("holes"), Word("at"), Word("corners") >>,
      << Num(MM(2)), Word("holes"), Word("on"), Word("the"), Word("edges") >>,
      << Word("hole"), Word("at"), Num(MM(10)), Word(","), Num(MM(20)) >>,
      << Word("M6"), Word("threaded"), Word("hole") >>,
      << Word("M8"), Word("hole"), Word("at"), Num(MM(10)), Word(","), Num(MM(20)) >> }

FilletPhrases ==
    { << >>, << Word("fillet"), Num(MM(2)), Word("mm") >>, << Word("round") >> }

ChamferPhrases ==
    { << >>, << Num(MM(2)), Word("mm"), Word("chamfer") >>, << Word("bevel") >> }

\* the edge lengths of a solid the kernel holds
EdgeSets == { {}, {MM(5), MM(6)}, {MM(6), MM(8)}, {MM(8), MM(50)} }

ScriptInit ==
    /\ PipelineAtRest
    /\ out = NoResult
    /\ tc \in [op : {"script"}, shape : {"box", "cylinder", "cone"},
                hole : HolePhrases, fillet : FilletPhrases, chamfer : ChamferPhrases,
                edges : EdgeSets]

\* generate_cad: the features are detected in request.text and handed to
\* CodeGenerator.generate; out is the kernel about to run the script
GenerateScript ==
    /\ out = NoResult /\ tc.op = "script"
    /\ LET text   == tc.hole \o tc.fillet \o tc.chamfer
           holes  == v6_detect_holes(text)
       IN  out' = [op |-> "script", holes |-> holes,
                   script |-> v6_generate(tc.shape, holes,
                                          v6_detect_finish(text, "fillet", "round"),
                                          v6_detect_finish(text, "chamfer", "bevel")),
                   pc |-> 1, st |-> "running",
                   base |-> "", edges |-> {},
                   tools |-> {}, fused |-> {}, cuts |-> 0,
                   ran |-> Block("", 0, 0, 0), prior |-> "", seen |-> {}, sel |-> {},
                   raised |-> FALSE, printed |-> "", exported |-> ""]
    /\ UNCHANGED <<pipeVars, tc>>

\* edge.Length > 3.0 * size, as the chamfer block would read with the fillet's factor
edges_to_chamfer_as_fillet(edges, size) == {e \in edges : e > 3 * size}

\* for edge in shape.Edges: if edge.Length > {radius} * 3
edges_to_fillet(edges, radius) == {e \in edges : e > 3 * radius}

\* for edge in shape.Edges: if edge.Length > {size} * 4
edges_to_chamfer(edges, size) == {e \in edges : e > 4 * size}

\* the kernel runs the next block of the script
RunBlock ==
    /\ out.op = "script" /\ out.st = "running"
    /\ LET b    == out.script[out.pc]
           on   == [out EXCEPT !.pc = @ + 1, !.ran = b, !.prior = out.base,
                               !.seen = out.edges, !.raised = FALSE]
           name == IF b.k = "fillet" THEN "Fillet" ELSE "Chamfer"
           sel  == IF b.k = "fillet" THEN edges_to_fillet(out.edges, b.size)
                   ELSE edges_to_chamfer(out.edges, b.size)
       IN  CASE b.k = "base" ->
                  out' = [on EXCEPT !.base = "Base", !.edges = tc.edges]
             [] b.k = "comment" -> out' = on
             [] b.k \in {"tool", "thread"} ->
                  out' = [on EXCEPT !.tools = @ \cup {<<b.k, b.i, b.j>>}]
             [] b.k = "cut" ->
                  IF out.tools = {} THEN out' = on
                  \* cut.Base = base: NameError when no base was created
                  ELSE IF out.base = ""
                  THEN out' = [on EXCEPT !.st = "aborted", !.raised = TRUE]
                  ELSE \E edges \in EdgeSets :
                         out' = [on EXCEPT !.fused = out.tools, !.cuts = @ + 1,
                                           !.base = "PartWithHolesAndThreads",
                                           !.edges = edges]
             [] b.k \in {"fillet", "chamfer"} ->
                  \* hasattr(base, 'Shape'): NameError inside the try
                  IF out.base = ""
                  THEN out' = [on EXCEPT !.raised = TRUE, !.sel = {},
                                         !.printed = name \o " operation failed"]
                  ELSE IF sel = {}
                  THEN out' = [on EXCEPT !.sel = sel, !.printed = "No suitable edges"]
                  \* makeFillet / makeChamfer raises or returns the new solid
                  ELSE \/ out' = [on EXCEPT !.sel = sel, !.raised = TRUE,
                                            !.printed = name \o " operation failed"]
                       \/ \E edges \in EdgeSets :
                            out' = [on EXCEPT !.sel = sel, !.base = name,
                                              !.edges = edges,
                                              !.printed = name \o " applied"]
             \* footer: final_obj = base if 'base' in locals() else
             \* doc.Objects[-1] if doc.Objects else None
             [] OTHER ->
                  out' = [on EXCEPT !.st = IF out.base = "" /\ out.tools = {}
                                           THEN "exit 1" ELSE "exported",
                                    !.exported = IF out.base # "" THEN out.base
                                                 ELSE IF out.tools # {} THEN "Hole"
                                                 ELSE ""]
    /\ UNCHANGED <<pipeVars, tc>>

ScriptSpec == ScriptInit /\ [][GenerateScript \/ RunBlock]_vars

C27_EveryHoleHasACylinder ==
    out.op = "script" =>
        \A h \in DOMAIN out.holes :
            \E n \in DOMAIN out.script :
                out.script[n].k = "tool" /\ out.script[n].i = h - 1

\* C28: when main.py answers a request for several formats with a package,
\* the file of every requested format exists and is packed: a format whose
\* export failed or that is not supported ends the request with an error.
C28_PackageHoldsEveryFormat ==
    [][\A r \in Requests :
         (/\ server = "main" /\ Len(formats[r]) > 1
          /\ pc[r] = "await_validator" /\ pc'[r] = "respond"
          /\ resp'[r] = FileResponse(<<"zip", rid[r]>>))
            => \A i \in DOMAIN formats[r] :
                  /\ LowerFormat(formats[r][i]) \in output_files(formats[r])
                  /\ Exists(<<LowerFormat(formats[r][i]), rid[r]>>)]_vars

====
